---- MODULE Spec2Model ----
(***************************************************************************)
(* Screen-state recognition and decision engine of poe-toolkit:            *)
(*   - TabTracker._match_tab_name  (fuzzy vocabulary matcher)              *)
(*   - ScannerWorker               (scan loop, capture region, resolver    *)
(*                                  with temporal memory)                  *)
(* Strings are sequences of one-character strings, so that lower(),        *)
(* strip(), split() and the `in` substring test are computed, not assumed. *)
(* Optional values are sequences of length 0 (None) or 1.                  *)
(* Times are integers in units of 0.1 s.                                   *)
(***************************************************************************)
EXTENDS Integers, Sequences, FiniteSets, TLC

VARIABLES
    \* TabTracker
    known_tabs,      \* TabTracker.known_tabs: sequence of tab names
    ocr_text,        \* the raw text handed to the last _match_tab_name call
    matched,         \* its result: None or Some(tab)
    tab_pc,          \* "captured": text recognized, not yet matched; "matched"
    \* ScannerWorker fields
    config,                     \* self.config (the keys the model reads)
    running,                    \* self.running
    paused,                     \* self.paused
    current_zone,               \* self.current_zone
    tooltip_side_mode,          \* self.tooltip_side_mode: 0 (left) or 1 (right)
    manual_override,            \* self.manual_override: None or Some(mode)
    syndicate_memory,           \* self.syndicate_memory: dict key -> tuple
    in_syndicate_board,         \* self.in_syndicate_board
    syndicate_board_last_seen,  \* self.syndicate_board_last_seen
    \* the worker thread executing run()
    pc,              \* "new", "started", "while", "gate", "body", "done", "crashed"
    last_strategy,   \* local last_strategy of run(): None or Some(mode)
    \* environment
    now,             \* time.time(), in units of 0.1 s
    focused,         \* the game window is the foreground window
    screen,          \* size of the primary screen: <<width, height>>
    \* what the last loop iteration did (signals emitted, values computed)
    result_signal,   \* the ScanResult emitted by the last cycle: None or Some
    last_cycle,      \* record describing the last cycle, see NoCycle
    stop_called      \* stop() has been called since start()

matcherVars == <<known_tabs, ocr_text, matched, tab_pc>>
workerFields == <<config, running, paused, current_zone, tooltip_side_mode,
                  manual_override, syndicate_memory, in_syndicate_board,
                  syndicate_board_last_seen>>
scannerVars == <<workerFields, pc, last_strategy, now, focused, screen,
                 result_signal, last_cycle, stop_called>>
vars == <<matcherVars, scannerVars>>

None == <<>>
Some(x) == <<x>>

-----------------------------------------------------------------------------
(* Python str primitives                                                   *)

Upper_AZ == <<"A","B","C","D","E","F","G","H","I","J","K","L","M","N","O","P","Q","R","S","T","U","V","W","X","Y","Z">>
Lower_az == <<"a","b","c","d","e","f","g","h","i","j","k","l","m","n","o","p","q","r","s","t","u","v","w","x","y","z">>

Whitespace == {" ", "\t", "\n"}

LowerOf == [c \in {Upper_AZ[i] : i \in 1..Len(Upper_AZ)} |->
               Lower_az[CHOOSE i \in 1..Len(Upper_AZ) : Upper_AZ[i] = c]]
UpperOf == [c \in {Lower_az[i] : i \in 1..Len(Lower_az)} |->
               Upper_AZ[CHOOSE i \in 1..Len(Lower_az) : Lower_az[i] = c]]

lower_char(c) == IF c \in DOMAIN LowerOf THEN LowerOf[c] ELSE c

upper_char(c) == IF c \in DOMAIN UpperOf THEN UpperOf[c] ELSE c

\* str.lower()
lower(s) == [i \in 1..Len(s) |-> lower_char(s[i])]

\* str.upper()
upper(s) == [i \in 1..Len(s) |-> upper_char(s[i])]

\* str.strip(): drop leading and trailing whitespace
strip(s) ==
    LET keep == {i \in 1..Len(s) : s[i] \notin Whitespace}
    IN  IF keep = {} THEN <<>>
        ELSE LET lo == CHOOSE i \in keep : \A j \in keep : i <= j
                 hi == CHOOSE i \in keep : \A j \in keep : j <= i
             IN  SubSeq(s, lo, hi)

\* sub in s
str_in(sub, s) ==
    \E i \in 0..(Len(s) - Len(sub)) : SubSeq(s, i + 1, i + Len(sub)) = sub

\* s.split(sep) for a one-character separator: the pieces, empty ones kept
RECURSIVE split(_, _)
split(s, sep) ==
    IF \A i \in 1..Len(s) : s[i] # sep
    THEN <<s>>
    ELSE LET i == CHOOSE k \in 1..Len(s) :
                      s[k] = sep /\ \A j \in 1..(k - 1) : s[j] # sep
         IN  <<SubSeq(s, 1, i - 1)>> \o split(SubSeq(s, i + 1, Len(s)), sep)

\* [f(x) for x in xs] flattened: concatenation of a sequence of sequences
RECURSIVE extend_all(_)
extend_all(xss) ==
    IF xss = <<>> THEN <<>> ELSE Head(xss) \o extend_all(Tail(xss))

-----------------------------------------------------------------------------
(* TabTracker._match_tab_name                                              *)

separators == <<"|", "}", "{", "]">>

\* candidates after splitting on every separator in turn
RECURSIVE split_candidates(_, _)
split_candidates(candidates, seps) ==
    IF seps = <<>> THEN candidates
    ELSE split_candidates(
            extend_all([k \in 1..Len(candidates) |-> split(candidates[k], Head(seps))]),
            Tail(seps))

\* [c for c in candidates if c.strip()]
RECURSIVE drop_blank(_)
drop_blank(xs) ==
    IF xs = <<>> THEN <<>>
    ELSE (IF strip(Head(xs)) # <<>> THEN <<Head(xs)>> ELSE <<>>) \o drop_blank(Tail(xs))

\* candidates = [c.strip() for c in candidates if c.strip()]
match_candidates(text) ==
    LET ocr_lower == strip(lower(text))
        raw == split_candidates(<<ocr_lower>>, separators)
        kept == drop_blank(raw)
    IN  [k \in 1..Len(kept) |-> strip(kept[k])]

\* "clean name" of a known tab: the part after the last '|', stripped
tab_clean(tab_lower) ==
    IF str_in(<<"|">>, tab_lower)
    THEN LET parts == split(tab_lower, "|") IN strip(parts[Len(parts)])
    ELSE tab_lower

pad(s) == <<" ">> \o s \o <<" ">>

\* the four rules of the inner loop, for one candidate and one tab
rule_exact_clean(candidate, tab) == candidate = tab_clean(lower(tab))
rule_exact_full(candidate, tab) == candidate = lower(tab)
rule_substring(candidate, tab) ==
    Len(candidate) >= 3 /\ str_in(candidate, lower(tab))
rule_token_mut(candidate, tab) ==
    Len(tab_clean(lower(tab))) >= 2 /\ str_in(tab_clean(lower(tab)), candidate)
rule_token(candidate, tab) ==
    Len(tab_clean(lower(tab))) >= 2
    /\ str_in(pad(tab_clean(lower(tab))), pad(candidate))

tab_matches(candidates, tab) ==
    /\ tab_clean(lower(tab)) # <<>>          \* if not tab_clean: continue
    /\ \E k \in 1..Len(candidates) :
          \/ rule_exact_clean(candidates[k], tab)
          \/ rule_exact_full(candidates[k], tab)
          \/ rule_substring(candidates[k], tab)
          \/ rule_token(candidates[k], tab)

match_tab_name_lowered(text, tabs) ==
    LET candidates == match_candidates(text)
        hits == {t \in 1..Len(tabs) : tab_matches(candidates, tabs[t])}
    IN  IF hits = {} THEN None
        ELSE Some(lower(tabs[CHOOSE t \in hits : \A u \in hits : t <= u]))

\* for tab in known_tabs: for candidate in candidates: ... return tab
match_tab_name(text, tabs) ==
    LET candidates == match_candidates(text)
        hits == {t \in 1..Len(tabs) : tab_matches(candidates, tabs[t])}
    IN  IF hits = {} THEN None
        ELSE Some(tabs[CHOOSE t \in hits : \A u \in hits : t <= u])

-----------------------------------------------------------------------------
(* Inputs of the matcher                                                   *)

MaxTabs == 2
MaxPieces == 3

Tab_Stash1 == <<"S","t","a","s","h"," ","1"," ","|"," ","S","1">>
Tab_Stash2 == <<"S","t","a","s","h"," ","2"," ","|"," ","S","2">>
Tab_Maps == <<"M","a","p","s">>
Tab_NoClean == <<"D","u","m","p"," ","|">>
TabNames == {Tab_Stash1, Tab_Stash2, Tab_Maps, Tab_NoClean}

Frag_s1 == <<"s","1">>
Frag_S1 == <<"S","1">>
Frag_xxl == <<"x","x"," ">>
Frag_xxr == <<" ","x","x">>
Frag_stash == <<"s","t","a","s","h">>
Frag_bar == <<"|">>
Frag_dump == <<"d","u","m","p">>
Fragments == {Frag_s1, Frag_S1, Frag_xxl, Frag_xxr, Frag_stash, Frag_bar, Frag_dump}

\* sequences without repetition of at most n elements of S
RECURSIVE SeqsNoRep(_, _)
SeqsNoRep(S, n) ==
    IF n = 0 THEN {<<>>}
    ELSE LET shorter == SeqsNoRep(S, n - 1)
             longest == {r \in shorter : Len(r) = n - 1}
             fresh(r) == {x \in S : \A i \in 1..Len(r) : r[i] # x}
         IN  shorter \cup UNION {{Append(r, x) : x \in fresh(r)} : r \in longest}

\* concatenations of at most n fragments
RECURSIVE Concats(_, _)
Concats(S, n) ==
    IF n = 0 THEN {<<>>}
    ELSE LET shorter == Concats(S, n - 1)
         IN  shorter \cup {q \o x : q \in shorter, x \in S}

TabLists == SeqsNoRep(TabNames, MaxTabs)
RawTexts == Concats(Fragments, MaxPieces)

-----------------------------------------------------------------------------
(* ScannerWorker: strings of check_syndicate                               *)

kw_execute == <<"e","x","e","c","u","t","e">>
kw_interrogate == <<"i","n","t","e","r","r","o","g","a","t","e">>
kw_release == <<"r","e","l","e","a","s","e">>
kw_bargain == <<"b","a","r","g","a","i","n">>
kw_betray == <<"b","e","t","r","a","y">>
kw_intelligence == <<"i","n","t","e","l","l","i","g","e","n","c","e">>
kw_imprisoned == <<"i","m","p","r","i","s","o","n","e","d">>
kw_rank == <<"r","a","n","k">>
kw_transportation == <<"t","r","a","n","s","p","o","r","t","a","t","i","o","n">>
kw_fortification == <<"f","o","r","t","i","f","i","c","a","t","i","o","n">>
kw_research == <<"r","e","s","e","a","r","c","h">>
kw_intervention == <<"i","n","t","e","r","v","e","n","t","i","o","n">>
kw_member == <<"m","e","m","b","e","r">>
kw_leader == <<"l","e","a","d","e","r">>
kw_captain == <<"c","a","p","t","a","i","n">>
kw_sergeant == <<"s","e","r","g","e","a","n","t">>
kw_lieutenant == <<"l","i","e","u","t","e","n","a","n","t">>
kw_moves_to == <<"m","o","v","e","s"," ","t","o">>
kw_remove == <<"r","e","m","o","v","e">>
key_last_good == <<"_","l","a","s","t","_","g","o","o","d">>
txt_arrow == <<" ","-",">"," ">>
txt_bar == <<" ","|"," ">>
txt_comma == <<","," ">>
txt_remove_no_rank == <<":"," ","R","E","M","O","V","E"," ","(","D","o"," ","n","o","t"," ","R","a","n","k"," ","U","p",")">>
txt_release_keep_free == <<"R","E","L","E","A","S","E"," ","(","K","e","e","p"," ","F","r","e","e",")">>
txt_avoid == <<"A","V","O","I","D"," ">>
txt_execute_join == <<"E","X","E","C","U","T","E"," ","(","J","o","i","n"," ">>
txt_close == <<")">>
txt_interrogate_remove == <<"I","N","T","E","R","R","O","G","A","T","E"," ","(","R","e","m","o","v","e"," ","f","r","o","m"," ">>
txt_remove_from == <<"R","E","M","O","V","E"," ","F","R","O","M"," ">>
txt_execute_rank_up == <<"E","X","E","C","U","T","E"," ","(","R","a","n","k"," ","U","p"," ","i","n"," ">>
txt_release_stay == <<"R","E","L","E","A","S","E"," ","(","S","t","a","y"," ","i","n"," ">>
txt_stay_in == <<"S","T","A","Y"," ","I","N"," ">>

IsLetter(c) ==
    \E i \in 1..Len(Upper_AZ) : Upper_AZ[i] = c \/ Lower_az[i] = c

\* str.title(): a letter is upper-cased after a non-letter, lower-cased otherwise
title(s) ==
    [i \in 1..Len(s) |->
        IF i = 1 \/ ~IsLetter(s[i - 1]) THEN upper_char(s[i]) ELSE lower_char(s[i])]

\* sep.join(parts)
RECURSIVE join(_, _)
join(sep, parts) ==
    IF parts = <<>> THEN <<>>
    ELSE IF Len(parts) = 1 THEN Head(parts)
    ELSE Head(parts) \o sep \o join(sep, Tail(parts))

\* [t for t in xs if t.strip()]
RECURSIVE nonblank(_)
nonblank(xs) ==
    IF xs = <<>> THEN <<>>
    ELSE (IF strip(Head(xs)) # <<>> THEN <<Head(xs)>> ELSE <<>>) \o nonblank(Tail(xs))

\* full_text = " ".join([t for t in data['text'] if t.strip()])
join_text(data_text) == join(<<" ">>, nonblank(data_text))

-----------------------------------------------------------------------------
(* re.search with re.IGNORECASE, for the three patterns of check_syndicate *)

Digits == {"0","1","2","3","4","5","6","7","8","9"}
RegexSpace == {" ", "\t", "\n", "\r"}

houses == <<kw_transportation, kw_fortification, kw_research, kw_intervention>>
ranks == <<kw_member, kw_leader, kw_captain, kw_sergeant, kw_lieutenant>>

\* word occurs in s at position pos
at(word, s, pos) ==
    /\ pos >= 1
    /\ pos + Len(word) - 1 <= Len(s)
    /\ SubSeq(s, pos, pos + Len(word) - 1) = word

\* index of the last character of the longest run of characters of S that
\* starts at pos (pos - 1 when s[pos] is not in S)
run_end(s, pos, S) ==
    LET stops == {e \in pos..(Len(s) + 1) : e = Len(s) + 1 \/ s[e] \notin S}
    IN  (CHOOSE e \in stops : \A f \in stops : e <= f) - 1

\* (first alternatives).{0,10}(second alternatives) in the lower-cased text l:
\* the match re.search returns as <<position, first index, gap, second
\* index>>, or None. Leftmost position, alternatives in order, the gap
\* greedy, '.' no newline.
gap_match(firsts, seconds, l) ==
    LET ok(p, a, g, b) ==
            /\ at(firsts[a], l, p)
            /\ \A k \in (p + Len(firsts[a]))..(p + Len(firsts[a]) + g - 1) :
                  k <= Len(l) /\ l[k] # "\n"
            /\ at(seconds[b], l, p + Len(firsts[a]) + g)
        before(m, n) ==
            \/ m[1][1] < n[1][1]
            \/ m[1][1] = n[1][1] /\ m[1][2] < n[1][2]
            \/ m[1] = n[1] /\ m[2] > n[2]
            \/ m[1] = n[1] /\ m[2] = n[2] /\ m[3] <= n[3]
        first_of(found) ==
            IF found = {} THEN None
            ELSE LET m == CHOOSE x \in found : \A y \in found : before(x, y)
                 IN  Some(<<m[1][1], m[1][2], m[2], m[3]>>)
    IN  first_of({m \in {pa \in (1..Len(l)) \X (1..Len(firsts)) :
                            at(firsts[pa[2]], l, pa[1])}
                         \X (0..10) \X (1..Len(seconds)) :
                     ok(m[1][1], m[1][2], m[2], m[3])})

\* re.search(pattern, s, re.IGNORECASE) for such a pattern
gap_search(firsts, seconds, s) == gap_match(firsts, seconds, lower(s))

\* r"\+\d+\s+(House)\s+Intelligence" in the lower-cased text l: the house
\* index of the leftmost match
intel_match_in(l) ==
    LET house_at(p) ==
            LET d == run_end(l, p + 1, Digits)
                w == run_end(l, d + 1, RegexSpace)
            IN  {b \in 1..Len(houses) :
                    /\ l[p] = "+" /\ d >= p + 1 /\ w >= d + 1
                    /\ at(houses[b], l, w + 1)
                    /\ LET v == run_end(l, w + 1 + Len(houses[b]), RegexSpace)
                       IN  /\ v >= w + 1 + Len(houses[b])
                           /\ at(kw_intelligence, l, v + 1)}
        first_of(found) ==
            IF found = {} THEN None
            ELSE Some(CHOOSE b \in house_at(CHOOSE x \in found : \A y \in found : x <= y) :
                         TRUE)
    IN  first_of({p \in 1..Len(l) : house_at(p) # {}})

intel_search(s) == intel_match_in(lower(s))

-----------------------------------------------------------------------------
(* ScannerWorker.check_syndicate                                           *)

\* seconds in units of 0.1 s: the persistence windows of the memory
MemberTtl == 30
FallbackTtl == 20

\* ScanResult(message, color, is_blocking=False, blocker_rect=None)
ScanResult(message, color) ==
    [message |-> message, color |-> color, is_blocking |-> FALSE, blocker_rect |-> None]

\* dict.get(key): None or Some(value)
dict_get(dict, key) == IF key \in DOMAIN dict THEN Some(dict[key]) ELSE None

\* dict[key] = value
dict_set(dict, key, value) ==
    [k \in DOMAIN dict \cup {key} |-> IF k = key THEN value ELSE dict[k]]

\* the available actions, in the order they are appended
syndicate_actions(full_text) ==
    LET l == lower(full_text)
        opt(kw) == IF str_in(kw, l) THEN <<upper(kw)>> ELSE <<>>
    IN  opt(kw_execute) \o opt(kw_interrogate) \o opt(kw_bargain)
          \o opt(kw_betray) \o opt(kw_release)

\* the house of the first method that matched
first_house(intel_match, rank_house_match, house_rank_match) ==
    IF intel_match # None THEN Some(title(houses[intel_match[1]]))
    ELSE IF rank_house_match # None THEN Some(title(houses[rank_house_match[1][4]]))
    ELSE IF house_rank_match # None THEN Some(title(houses[house_rank_match[1][2]]))
    ELSE None

\* current_house: Method 1, then "Rank House", then "House Rank"
current_house(full_text) ==
    first_house(intel_search(full_text),
                gap_search(ranks, houses, full_text),
                gap_search(houses, ranks, full_text))

\* the house of a "moves to" match
moved_house(move_match) ==
    IF move_match # None THEN Some(title(houses[move_match[1][4]])) ELSE None

\* target house of the "moves to" pattern
move_target(full_text) == moved_house(gap_search(<<kw_moves_to>>, houses, full_text))

\* has the text a tier-3 reading (a target house or a current house)
tier3(full_text) == move_target(full_text) # None \/ current_house(full_text) # None

\* priority of the candidate of one recognized member
candidate_priority(member, goal, full_text) ==
    IF tier3(full_text) THEN 3
    ELSE IF lower(goal) = kw_remove THEN 2
    ELSE 1

\* (result_msg, result_color) from the member, the goal, the lower-cased
\* text l, the target house, the current house and the actions
compose_result(member, goal, l, target, house, actions) ==
    LET found_member == member \o txt_arrow \o upper(goal)
    IN  IF target # None THEN
            IF lower(target[1]) # lower(goal) THEN
                IF str_in(kw_release, l)
                THEN ScanResult(found_member \o txt_bar \o txt_release_keep_free, "green")
                ELSE ScanResult(found_member \o txt_bar \o txt_avoid \o upper(target[1]), "orange")
            ELSE ScanResult(found_member \o txt_bar \o txt_execute_join \o goal \o txt_close, "green")
        ELSE IF house # None THEN
            IF lower(house[1]) # lower(goal) THEN
                IF str_in(kw_interrogate, l)
                THEN ScanResult(found_member \o txt_bar \o txt_interrogate_remove
                                   \o house[1] \o txt_close, "green")
                ELSE ScanResult(found_member \o txt_bar \o txt_remove_from
                                   \o upper(house[1]), "orange")
            ELSE IF str_in(kw_execute, l)
                THEN ScanResult(found_member \o txt_bar \o txt_execute_rank_up
                                   \o house[1] \o txt_close, "green")
            ELSE IF str_in(kw_release, l)
                THEN ScanResult(found_member \o txt_bar \o txt_release_stay
                                   \o house[1] \o txt_close, "green")
            ELSE ScanResult(found_member \o txt_bar \o txt_stay_in \o upper(house[1]), "green")
        ELSE IF lower(goal) = kw_remove
            THEN ScanResult(member \o txt_remove_no_rank, "orange")
        ELSE ScanResult(found_member \o txt_bar \o join(txt_comma, actions), "cyan")

\* (result_msg, result_color) of the candidate of one recognized member
candidate_result(member, goal, full_text) ==
    compose_result(member, goal, lower(full_text), move_target(full_text),
                   current_house(full_text), syndicate_actions(full_text))

\* indices into goals of the members matched, in the order of the two loops
\* (for i in range(n_boxes): for member, goal in goals.items())
RECURSIVE goals_matching(_, _, _)
goals_matching(word, goals, k) ==
    IF k > Len(goals) THEN <<>>
    ELSE (IF lower(goals[k][1]) = lower(word) THEN <<k>> ELSE <<>>)
            \o goals_matching(word, goals, k + 1)

RECURSIVE syndicate_hits(_, _)
syndicate_hits(data_text, goals) ==
    IF data_text = <<>> THEN <<>>
    ELSE (IF strip(Head(data_text)) = <<>> THEN <<>>
          ELSE goals_matching(strip(Head(data_text)), goals, 1))
            \o syndicate_hits(Tail(data_text), goals)

\* current_member_name after the loops: the member matched last
remembered_member(hits, goals) == goals[hits[Len(hits)]][1]

has_buttons(full_text) ==
    LET l == lower(full_text)
    IN  str_in(kw_execute, l) \/ str_in(kw_interrogate, l) \/ str_in(kw_release, l)

has_syndicate_context(full_text) ==
    LET l == lower(full_text)
    IN  \/ str_in(kw_intelligence, l) \/ str_in(kw_imprisoned, l) \/ str_in(kw_rank, l)
        \/ str_in(kw_transportation, l) \/ str_in(kw_fortification, l)
        \/ str_in(kw_research, l) \/ str_in(kw_intervention, l)

\* the locals after the loops, from the hits and the position `top` in them
\* of the candidate kept as best
best_at(hits, top, full_text, goals) ==
    [best_result |-> Some(candidate_result(goals[hits[top]][1],
                                           goals[hits[top]][2], full_text)),
     best_priority |-> candidate_priority(goals[hits[top]][1],
                                          goals[hits[top]][2], full_text),
     current_member_name |-> Some(remembered_member(hits, goals)),
     best_member |-> Some(goals[hits[top]][1])]

\* variant: a later hit of the same priority replaces the earlier one
last_highest(hits, prios) ==
    CHOOSE n \in 1..Len(hits) :
        /\ \A m \in 1..Len(hits) : prios[m] <= prios[n]
        /\ \A m \in (n + 1)..Len(hits) : prios[m] < prios[n]

\* position in hits of the first hit of the highest priority
\* (if priority > best_priority)
first_highest(hits, prios) ==
    CHOOSE n \in 1..Len(hits) :
        /\ \A m \in 1..Len(hits) : prios[m] <= prios[n]
        /\ \A m \in 1..(n - 1) : prios[m] < prios[n]

best_of(hits, full_text, goals) ==
    IF hits = <<>>
    THEN [best_result |-> None, best_priority |-> 0, current_member_name |-> None,
          best_member |-> None]
    ELSE best_at(hits,
                 first_highest(hits,
                     [m \in 1..Len(hits) |->
                         candidate_priority(goals[hits[m]][1], goals[hits[m]][2],
                                            full_text)]),
                 full_text, goals)

\* The part of check_syndicate before the memory: the best candidate.
syndicate_best(data_text, full_text, goals) ==
    best_of(syndicate_hits(data_text, goals), full_text, goals)

\* the persistence tests of the memory, each with a variant that differs at
\* the edge of the window (inclusive) or in its length (long)
member_ttl_ok_inclusive(age) == age <= MemberTtl
member_ttl_ok(age) == age < MemberTtl
fallback_ttl_ok_long(age) == age < MemberTtl
fallback_ttl_ok(age) == age < FallbackTtl

\* what check_syndicate yields when it returns None before its loops
syndicate_nothing(memory) ==
    [result |-> None, memory |-> memory, via |-> "none", best_priority |-> 0,
     current_member_name |-> None, best_member |-> None, own |-> None,
     held |-> None]

\* check_syndicate up to the memory logic, which reads neither the memory nor
\* the clock: whether it returns early (skip), has_syndicate_context and the
\* locals best_result, best_priority, current_member_name after the loops
\* (best_member: the member best_result was composed for).
scan_locals(goals, buttons, context, b) ==
    [skip |-> goals = <<>> \/ ~(buttons \/ context),
     has_syndicate_context |-> context,
     best_result |-> b.best_result,
     best_priority |-> b.best_priority,
     current_member_name |-> b.current_member_name,
     best_member |-> b.best_member]

syndicate_scan(data_text, full_text, goals) ==
    scan_locals(goals, has_buttons(full_text), has_syndicate_context(full_text),
                syndicate_best(data_text, full_text, goals))

\* variant: the general slot is left as it is
memorize_member_only(memory, name, current_time, result) ==
    dict_set(memory, name, <<current_time, result>>)

\* a tier-3 result is stored under the member's name and in the general slot
memorize(memory, name, current_time, result) ==
    dict_set(dict_set(memory, name, <<current_time, result>>),
             key_last_good, <<current_time, result, name>>)

\* variant: reading an entry stamps it with the time of the read
recalled_refreshed(memory, key, current_time) ==
    [memory EXCEPT ![key][1] = current_time]

\* best_result = cached_result: the entry is read and nothing is written
recalled(memory, key, current_time) == memory

\* variant: a recent entry of the memory is preferred to the cycle's own
\* result whatever its tier
syndicate_memory_logic_cache_first(s, memory, current_time) ==
    LET name == s.current_member_name[1]
        mem == dict_get(memory, name)
        last_good == dict_get(memory, key_last_good)
        base == [syndicate_nothing(memory) EXCEPT
                    !.best_priority = s.best_priority,
                    !.current_member_name = s.current_member_name,
                    !.best_member = s.best_member,
                    !.own = s.best_result,
                    !.held = IF s.current_member_name = None THEN None ELSE mem]
    IN  IF s.skip THEN syndicate_nothing(memory)
        ELSE IF s.current_member_name # None /\ mem # None
                /\ member_ttl_ok(current_time - mem[1][1])
            THEN [base EXCEPT !.result = Some(mem[1][2]), !.via = "member_cache"]
        ELSE IF s.current_member_name # None /\ s.best_priority = 3 THEN
            [base EXCEPT
                !.result = s.best_result,
                !.via = "own",
                !.memory = memorize(memory, name, current_time, s.best_result[1])]
        ELSE IF s.current_member_name # None
            THEN [base EXCEPT !.result = s.best_result, !.via = "own"]
        ELSE IF s.has_syndicate_context
                /\ last_good # None
                /\ fallback_ttl_ok(current_time - last_good[1][1])
            THEN [base EXCEPT !.result = Some(last_good[1][2]), !.via = "last_good"]
        ELSE base

\* The memory logic of check_syndicate at time current_time: the value
\* returned (result), the memory afterwards, and how the value was chosen
\* (via: "own", "member_cache", "last_good", "none"); held is the entry the
\* memory had under current_member_name when the logic began.
syndicate_memory_logic(s, memory, current_time) ==
    LET name == s.current_member_name[1]
        mem == dict_get(memory, name)
        last_good == dict_get(memory, key_last_good)
        base == [syndicate_nothing(memory) EXCEPT
                    !.best_priority = s.best_priority,
                    !.current_member_name = s.current_member_name,
                    !.best_member = s.best_member,
                    !.own = s.best_result,
                    !.held = IF s.current_member_name = None THEN None ELSE mem]
    IN  IF s.skip THEN syndicate_nothing(memory)
        ELSE IF s.current_member_name # None /\ s.best_priority = 3 THEN
            [base EXCEPT
                !.result = s.best_result,
                !.via = "own",
                !.memory = memorize(memory, name, current_time, s.best_result[1])]
        ELSE IF s.current_member_name # None THEN
            IF mem # None /\ member_ttl_ok(current_time - mem[1][1])
            THEN [base EXCEPT !.result = Some(mem[1][2]), !.via = "member_cache",
                              !.memory = recalled(memory, name, current_time)]
            ELSE [base EXCEPT !.result = s.best_result, !.via = "own"]
        ELSE IF s.has_syndicate_context
                /\ last_good # None
                /\ fallback_ttl_ok(current_time - last_good[1][1])
            THEN [base EXCEPT !.result = Some(last_good[1][2]), !.via = "last_good",
                              !.memory = recalled(memory, key_last_good, current_time)]
        ELSE base

check_syndicate(data_text, full_text, memory, current_time, goals) ==
    syndicate_memory_logic(syndicate_scan(data_text, full_text, goals),
                           memory, current_time)

-----------------------------------------------------------------------------
(* ScannerWorker: the map, altar, expedition and keyword detectors          *)

txt_unsafe_map == <<"U","N","S","A","F","E"," ","M","A","P",":"," ">>
txt_map_safe == <<"M","A","P"," ","S","A","F","E">>
txt_danger == <<"D","A","N","G","E","R",":"," ">>
txt_altar_t == <<"A","L","T","A","R"," ","T">>
txt_colon == <<":"," ">>
txt_immune_to == <<"I","M","M","U","N","E"," ","T","O"," ">>
txt_expedition_danger ==
    <<"E","X","P","E","D","I","T","I","O","N"," ","D","A","N","G","E","R",":"," ">>
txt_found == <<"F","O","U","N","D",":"," ">>
kw_remnant == <<"r","e","m","n","a","n","t">>
kw_immune_to == <<"i","m","m","u","n","e"," ","t","o"," ">>

DigitChars == <<"0","1","2","3","4","5","6","7","8","9">>

\* int(s) for a string of decimal digits
RECURSIVE int(_)
int(s) ==
    IF s = <<>> THEN 0
    ELSE 10 * int(SubSeq(s, 1, Len(s) - 1))
            + (CHOOSE n \in 0..9 : DigitChars[n + 1] = s[Len(s)])

\* str(n) of an f-string, n >= 0
RECURSIVE str(_)
str(n) == IF n < 10 THEN <<DigitChars[n + 1]>> ELSE str(n \div 10) \o <<DigitChars[(n % 10) + 1]>>

\* ScanResult(message, color, is_blocking=True, blocker_rect=btn_rect)
BlockingResult(message, color, btn_rect) ==
    [message |-> message, color |-> color, is_blocking |-> TRUE,
     blocker_rect |-> Some(btn_rect)]

\* for w in words: if w.lower() in l: the index of the first such w, 0 when
\* the loop ends without one
RECURSIVE first_in(_, _, _)
first_in(words, l, k) ==
    IF k > Len(words) THEN 0
    ELSE IF str_in(lower(words[k]), l) THEN k
    ELSE first_in(words, l, k + 1)

\* variant: the danger result as a plain ScanResult
map_verdict_unblocked(bad_mods, hit, btn_rect) ==
    IF hit # 0
    THEN Some(ScanResult(txt_unsafe_map \o upper(bad_mods[hit]), "red"))
    ELSE Some(ScanResult(txt_map_safe, "green"))

\* the loop over bad_mods of check_map_safety and what follows it; hit is
\* the index of the first bad mod in the text
map_verdict(bad_mods, hit, btn_rect) ==
    IF hit # 0
    THEN Some(BlockingResult(txt_unsafe_map \o upper(bad_mods[hit]), "red", btn_rect))
    ELSE Some(ScanResult(txt_map_safe, "green"))

\* check_map_safety(text) under the section cfg = config["map_check"] and
\* btn_rect = config["map_device_button"]
check_map_safety(text, cfg, btn_rect) ==
    IF ~cfg.enabled THEN None
    ELSE IF first_in(cfg.required_context, lower(text), 1) = 0 THEN None
    ELSE map_verdict(cfg.bad_mods, first_in(cfg.bad_mods, lower(text), 1), btn_rect)

\* the loop over the rewards of one tier; found is <<found_tier, found_reward>>
RECURSIVE scan_rewards(_, _, _, _)
scan_rewards(tier, rewards, l, found) ==
    IF rewards = <<>> THEN found
    ELSE scan_rewards(tier, Tail(rewards), l,
                      IF str_in(lower(Head(rewards)), l) /\ tier < found[1]
                      THEN <<tier, Some(Head(rewards))>>
                      ELSE found)

\* the loop over tiers.items(), a sequence of <<tier_str, rewards>>
RECURSIVE scan_tiers(_, _, _, _)
scan_tiers(tiers, min_tier, l, found) ==
    IF tiers = <<>> THEN found
    ELSE scan_tiers(Tail(tiers), min_tier, l,
                    IF int(Head(tiers)[1]) > min_tier THEN found
                    ELSE scan_rewards(int(Head(tiers)[1]), Head(tiers)[2], l, found))

\* if found_reward: (None and the empty string are false)
altar_reward(found) ==
    IF found[2] # None /\ found[2][1] # <<>>
    THEN Some(ScanResult(txt_altar_t \o str(found[1]) \o txt_colon \o found[2][1], "green"))
    ELSE None

\* the bad mods of check_eldritch pre-empt the tiers; hit as in map_verdict
altar_verdict(bad_mods, hit, found) ==
    IF hit # 0 THEN Some(ScanResult(txt_danger \o upper(bad_mods[hit]), "red"))
    ELSE altar_reward(found)

\* check_eldritch(text) under the section cfg = config["eldritch_altars"]
check_eldritch(text, cfg) ==
    IF ~cfg.enabled THEN None
    ELSE altar_verdict(cfg.bad_mods, first_in(cfg.bad_mods, lower(text), 1),
                       scan_tiers(cfg.tiers, cfg.min_tier_to_highlight, lower(text),
                                  <<99, None>>))

\* f"immune to {dtype}" for each dtype
immune_phrases(immune_warning) ==
    [k \in 1..Len(immune_warning) |-> kw_immune_to \o immune_warning[k]]

expedition_verdict(cfg, immune, bad) ==
    IF immune # 0
    THEN Some(ScanResult(txt_immune_to \o upper(cfg.immune_warning[immune]), "red"))
    ELSE IF bad # 0
    THEN Some(ScanResult(txt_expedition_danger \o upper(cfg.bad_mods[bad]), "red"))
    ELSE None

\* check_expedition(text) under the section cfg = config["expedition"]
check_expedition(text, cfg) ==
    IF ~cfg.enabled THEN None
    ELSE IF ~str_in(kw_remnant, lower(text)) THEN None
    ELSE expedition_verdict(cfg,
                            first_in(immune_phrases(cfg.immune_warning), lower(text), 1),
                            first_in(cfg.bad_mods, lower(text), 1))

\* active_keywords of process_image
active_keywords(ess_cfg, rit_cfg) ==
    (IF ess_cfg.enabled THEN ess_cfg.keywords ELSE <<>>)
        \o (IF rit_cfg.enabled THEN rit_cfg.keywords ELSE <<>>)

\* for keyword in active_keywords: if keyword.lower() in word_lower
RECURSIVE word_keywords(_, _)
word_keywords(word_lower, keywords) ==
    IF keywords = <<>> THEN <<>>
    ELSE (IF str_in(lower(Head(keywords)), word_lower)
          THEN <<ScanResult(txt_found \o Head(keywords), "green")>>
          ELSE <<>>)
            \o word_keywords(word_lower, Tail(keywords))

\* the loop over the boxes: words shorter than 3 characters are skipped
\* variant: keyword by keyword, each over all the words
RECURSIVE keyword_results_by_keyword(_, _)
keyword_results_by_keyword(data_text, keywords) ==
    IF keywords = <<>> THEN <<>>
    ELSE SelectSeq([i \in 1..Len(data_text) |->
                      IF Len(strip(data_text[i])) >= 3
                           /\ str_in(lower(Head(keywords)), lower(strip(data_text[i])))
                      THEN ScanResult(txt_found \o Head(keywords), "green")
                      ELSE ScanResult(<<>>, "none")],
                   LAMBDA r : r.color = "green")
            \o keyword_results_by_keyword(data_text, Tail(keywords))

RECURSIVE keyword_results(_, _)
keyword_results(data_text, keywords) ==
    IF data_text = <<>> THEN <<>>
    ELSE (IF Len(strip(Head(data_text))) < 3 THEN <<>>
          ELSE word_keywords(lower(strip(Head(data_text))), keywords))
            \o keyword_results(Tail(data_text), keywords)

-----
(* ScannerWorker: mode, capture region, recognition passes                 *)

kw_map_tier == <<"m","a","p"," ","t","i","e","r">>
kw_item_class_maps == <<"i","t","e","m"," ","c","l","a","s","s",":"," ","m","a","p","s">>
kw_Hideout == <<"H","i","d","e","o","u","t">>

Zone_Unknown == <<"U","n","k","n","o","w","n">>
Zone_Hideout == <<"C","e","l","e","s","t","i","a","l"," ","H","i","d","e","o","u","t">>
Zone_Map == <<"S","t","r","a","n","d">>

\* the win32gui import succeeded (the Windows build of the tool)
HAS_WIN32 == TRUE

\* {}
empty_dict == [k \in {} |-> None]

\* variant: the zone is looked at before the override
get_active_strategy_zone_first(override, zone) ==
    IF str_in(kw_Hideout, zone) THEN "mouse"
    ELSE IF override # None THEN override[1]
    ELSE "center"

get_active_strategy(override, zone) ==
    IF override # None THEN override[1]
    ELSE IF str_in(kw_Hideout, zone) THEN "mouse"
    ELSE "center"

\* int(n / d): truncation toward zero
int_div(n, d) == IF n >= 0 THEN n \div d ELSE -((-n) \div d)

Max(a, b) == IF a >= b THEN a ELSE b
Min(a, b) == IF a <= b THEN a ELSE b

\* the expanded region of the syndicate board: margins in percent of the window
\* variant: as much of the height as of the width
syndicate_region_even(rect) ==
    [top |-> int_div(rect.top * 100 + rect.height * 5, 100),
     left |-> int_div(rect.left * 100 + rect.width * 5, 100),
     width |-> int_div(rect.width * 90, 100),
     height |-> int_div(rect.height * 90, 100)]

syndicate_region(rect) ==
    [top |-> int_div(rect.top * 100 + rect.height * 5, 100),
     left |-> int_div(rect.left * 100 + rect.width * 5, 100),
     width |-> int_div(rect.width * 90, 100),
     height |-> int_div(rect.height * 85, 100)]

\* screen.size() of the primary screen, 1920 x 1080 without one
screen_size(scr) == IF scr # None THEN scr[1] ELSE <<1920, 1080>>

\* variant: the left anchor whatever the side
hover_region_one_side(mx, my, h_cfg, side, scr) ==
    [top |-> Max(0, Min(my + h_cfg.y_offset, screen_size(scr)[2] - h_cfg.height)),
     left |-> Max(0, Min(mx + h_cfg.x_offset, screen_size(scr)[1] - h_cfg.width)),
     width |-> h_cfg.width,
     height |-> h_cfg.height]

\* the region anchored to the cursor, clamped to the screen
hover_region(mx, my, h_cfg, side, scr) ==
    LET w == h_cfg.width
        h == h_cfg.height
        x == IF side = 0 THEN mx + h_cfg.x_offset ELSE mx + h_cfg.x_offset_right
        y == my + h_cfg.y_offset
        screen_w == screen_size(scr)[1]
        screen_h == screen_size(scr)[2]
    IN  [top |-> Max(0, Min(y, screen_h - h)),
         left |-> Max(0, Min(x, screen_w - w)),
         width |-> w,
         height |-> h]

\* the fractional sub-rectangle of the window; r_config in percent
center_region(rect, r_config) ==
    [top |-> int_div(rect.top * 100 + rect.height * r_config.y_offset, 100),
     left |-> int_div(rect.left * 100 + rect.width * r_config.x_offset, 100),
     width |-> int_div(rect.width * r_config.width_pct, 100),
     height |-> int_div(rect.height * r_config.height_pct, 100)]

\* len([t for t in data['text'] if len(t.strip()) > 2])
RECURSIVE word_count(_)
word_count(data_text) ==
    IF data_text = <<>> THEN 0
    ELSE (IF Len(strip(Head(data_text))) > 2 THEN 1 ELSE 0) + word_count(Tail(data_text))

\* An image is what the recognition engine returns for it: the outcome of
\* the first pass, of the four strategies and of the fallback call; an
\* outcome is [error |-> raised or not, text |-> data['text']].

\* texts of the strategies that did not raise, in order
RECURSIVE all_texts(_)
all_texts(outcomes) ==
    IF outcomes = <<>> THEN <<>>
    ELSE (IF Head(outcomes).error THEN <<>> ELSE <<join_text(Head(outcomes).text)>>)
            \o all_texts(Tail(outcomes))

\* best_data is None; the fallback call is outside the try block
fallback_ocr(img) ==
    IF img.fallback.error
    THEN [raised |-> TRUE, data_text |-> <<>>, full_text |-> <<>>]
    ELSE [raised |-> FALSE, data_text |-> img.fallback.text,
          full_text |-> join_text(img.fallback.text)]

\* variant: a later strategy with the same count replaces the earlier one
process_syndicate_ocr_last(img) ==
    LET o == img.strategies
        count(k) == IF o[k].error THEN 0 ELSE word_count(o[k].text)
        better == {k \in 1..Len(o) : count(k) > 0 /\ \A j \in 1..Len(o) : count(j) <= count(k)}
    IN  IF better = {} THEN fallback_ocr(img)
        ELSE [raised |-> FALSE,
              data_text |-> o[CHOOSE k \in better : \A j \in better : k >= j].text,
              full_text |-> join(<<" ">>, all_texts(o))]

\* variant: the text is that of the strategy kept as best
process_syndicate_ocr_best_text(img) ==
    LET o == img.strategies
        count(k) == IF o[k].error THEN 0 ELSE word_count(o[k].text)
        better == {k \in 1..Len(o) : count(k) > 0 /\ \A j \in 1..Len(o) : count(j) <= count(k)}
    IN  IF better = {} THEN fallback_ocr(img)
        ELSE [raised |-> FALSE,
              data_text |-> o[CHOOSE k \in better : \A j \in better : k <= j].text,
              full_text |-> join_text(o[CHOOSE k \in better : \A j \in better : k <= j].text)]

process_syndicate_ocr(img) ==
    LET o == img.strategies
        count(k) == IF o[k].error THEN 0 ELSE word_count(o[k].text)
        better == {k \in 1..Len(o) : count(k) > 0 /\ \A j \in 1..Len(o) : count(j) <= count(k)}
    IN  IF better = {} THEN fallback_ocr(img)
        ELSE [raised |-> FALSE,
              data_text |-> o[CHOOSE k \in better : \A j \in better : k <= j].text,
              full_text |-> join(<<" ">>, all_texts(o))]

syndicate_keywords ==
    <<kw_transportation, kw_fortification, kw_research, kw_intervention,
      kw_execute, kw_interrogate, kw_imprisoned, kw_intelligence>>

is_syndicate_context(full_text) ==
    \E k \in 1..Len(syndicate_keywords) : str_in(syndicate_keywords[k], lower(full_text))

-----------------------------------------------------------------------------
(* ScannerWorker.process_image                                             *)

\* what the passes hand on: text1 is the first pass's full_text, second the
\* outcome of the multi-strategy pass
passes(first, text1, ctx, second) ==
    IF first.error
    THEN [error |-> TRUE, ctx |-> FALSE, raised |-> FALSE,
          data_text |-> <<>>, full_text |-> <<>>]
    ELSE IF ctx
    THEN [error |-> FALSE, ctx |-> TRUE, raised |-> second.raised,
          data_text |-> second.data_text, full_text |-> second.full_text]
    ELSE [error |-> FALSE, ctx |-> FALSE, raised |-> FALSE,
          data_text |-> first.text, full_text |-> text1]

\* The recognition part of process_image: the first pass and, in syndicate
\* context, the multi-strategy pass that replaces it. error: the first pass
\* raised (caught); raised: an exception leaves process_image.
recognize(img) ==
    passes(img.first, join_text(img.first.text),
           is_syndicate_context(join_text(img.first.text)),
           process_syndicate_ocr(img))

facts_of(r, cfg) ==
    [rec |-> r,
     scan |-> syndicate_scan(r.data_text, r.full_text, cfg.syndicate_goals),
     keyword |-> keyword_results(r.data_text, active_keywords(cfg.essence, cfg.ritual)),
     map |-> check_map_safety(r.full_text, cfg.map_check, cfg.map_device_button),
     altar |-> check_eldritch(r.full_text, cfg.eldritch_altars),
     expedition |-> check_expedition(r.full_text, cfg.expedition),
     map_context |-> \/ str_in(kw_map_tier, lower(r.full_text))
                     \/ str_in(kw_item_class_maps, lower(r.full_text))]

\* everything process_image derives from the image and the configuration
\* alone
image_facts(img, cfg) == facts_of(recognize(img), cfg)

-----------------------------------------------------------------------------
(* Configurations and inputs of the scanner                                *)

MaxNames == 2

Tok_Vorici == <<"V","o","r","i","c","i">>
Tok_aisling == <<"a","i","s","l","i","n","g">>
Tok_Research == <<"R","e","s","e","a","r","c","h">>
Tok_Member == <<"M","e","m","b","e","r">>
Tok_Rank == <<"R","a","n","k">>
Tok_Execute == <<"E","x","e","c","u","t","e">>
Name_Vorici == <<"V","o","r","i","c","i">>
Name_Aisling == <<"A","i","s","l","i","n","g">>
Goal_Research == <<"R","e","s","e","a","r","c","h">>
Goal_Remove == <<"R","e","m","o","v","e">>

\* syndicate_goals, in the order of the dict
Goals == <<<<Name_Vorici, Goal_Research>>, <<Name_Aisling, Goal_Remove>>>>

\* the defaults of config.get(...); fractions in percent, intervals in 0.1 s
DefaultHover ==
    [width |-> 600, height |-> 800, x_offset |-> 50, x_offset_right |-> -100,
     y_offset |-> -100]
DefaultScanRegion == [x_offset |-> 20, y_offset |-> 10, width_pct |-> 60, height_pct |-> 80]

\* config.get(section, {}) of a section the configuration does not have
NoKeywords == [enabled |-> FALSE, keywords |-> <<>>]
NoMapCheck == [enabled |-> FALSE, required_context |-> <<>>, bad_mods |-> <<>>]
NoAltars ==
    [enabled |-> FALSE, bad_mods |-> <<>>, min_tier_to_highlight |-> 1, tiers |-> <<>>]
NoExpedition == [enabled |-> FALSE, immune_warning |-> <<>>, bad_mods |-> <<>>]
\* the region of the map device button, set from the tool's window
Button == [x |-> 860, y |-> 900, w |-> 200, h |-> 60]

ScannerConfig ==
    [syndicate_goals |-> Goals, scan_region_hover |-> DefaultHover,
     scan_region |-> DefaultScanRegion, scan_interval_mouse |-> 1,
     scan_interval_center |-> 5,
     essence |-> NoKeywords, ritual |-> NoKeywords, map_check |-> NoMapCheck,
     eldritch_altars |-> NoAltars, expedition |-> NoExpedition,
     map_device_button |-> Button]

WindowRect == [top |-> 0, left |-> 0, width |-> 1920, height |-> 1080]
FullHd == Some(<<1920, 1080>>)

\* all sequences of at most n elements of S
RECURSIVE SeqsUpTo(_, _)
SeqsUpTo(S, n) ==
    IF n = 0 THEN {<<>>}
    ELSE LET shorter == SeqsUpTo(S, n - 1)
         IN  shorter \cup {Append(q, x) : q \in shorter, x \in S}

NameSeqs == SeqsUpTo({Tok_Vorici, Tok_aisling}, MaxNames)
Phrases == {<<>>, <<Tok_Rank>>, <<Tok_Execute>>, <<Tok_Research, Tok_Member>>}
Scans == {names \o phrase : names \in NameSeqs, phrase \in Phrases}

Read(text) == [error |-> FALSE, text |-> text]
Failed == [error |-> TRUE, text |-> <<>>]

\* an image every pass reads alike: the low-threshold strategy reads what
\* the first pass read, the other three strategies read no word
PlainImage(scan) ==
    [first |-> Read(scan),
     strategies |-> <<Read(scan), Read(<<>>), Read(<<>>), Read(<<>>)>>,
     fallback |-> Read(scan)]

ResolverElapsed == {10, 19, 21}
ResolverInputs ==
    {[rect |-> Some(WindowRect), cursor |-> Some(<<960, 540>>), capture |-> "image",
      img |-> PlainImage(scan), elapsed |-> e] : scan \in Scans, e \in ResolverElapsed}

\* recognition outcomes of the images the loop is run on
Img_Decision == PlainImage(<<Tok_Vorici, Tok_Research, Tok_Member>>)
Img_Blank == PlainImage(<<>>)
Img_FirstFails == [Img_Decision EXCEPT !.first = Failed]
Img_StrategyFails ==
    [first |-> Read(<<Tok_Execute>>),
     strategies |-> <<Failed, Read(<<Tok_Vorici, Tok_Execute>>), Read(<<>>), Read(<<>>)>>,
     fallback |-> Read(<<>>)]
Img_FallbackReads ==
    [first |-> Read(<<Tok_Execute>>),
     strategies |-> <<Failed, Read(<<>>), Read(<<>>), Read(<<>>)>>,
     fallback |-> Read(<<Tok_Execute>>)]
Img_FallbackFails ==
    [first |-> Read(<<Tok_Execute>>),
     strategies |-> <<Read(<<>>), Read(<<>>), Read(<<>>), Read(<<>>)>>,
     fallback |-> Failed]

LoopElapsed == 15
Cursor_Mid == Some(<<960, 540>>)
GoodInput(img) ==
    [rect |-> Some(WindowRect), cursor |-> Cursor_Mid, capture |-> "image",
     img |-> img, elapsed |-> LoopElapsed]

\* one cycle's environment: the window rectangle, the cursor query, the
\* capture and the recognition engine each succeed or fail
LoopInputs ==
    {GoodInput(img) : img \in {Img_Decision, Img_Blank, Img_FirstFails,
                               Img_StrategyFails, Img_FallbackReads,
                               Img_FallbackFails}}
      \cup {[GoodInput(Img_Blank) EXCEPT !.rect = None],
            [GoodInput(Img_Blank) EXCEPT !.cursor = None],
            [GoodInput(Img_Blank) EXCEPT !.capture = "none"],
            [GoodInput(Img_Blank) EXCEPT !.capture = "raise"]}

\* hover configurations, screens and cursor positions of the region check
SmallHover == [DefaultHover EXCEPT !.width = 300, !.height = 200]
HoverConfigs == {DefaultHover, SmallHover}
Hd == Some(<<1280, 720>>)
Screens == {FullHd, Hd, None}
CursorXs == {0, 700, 1279, 1919}
CursorYs == {0, 400, 719, 1079}
RegionConfigs == {[ScannerConfig EXCEPT !.scan_region_hover = h] : h \in HoverConfigs}
RegionInputs ==
    {[GoodInput(Img_Blank) EXCEPT !.cursor = Some(<<mx, my>>), !.elapsed = 10] :
        mx \in CursorXs, my \in CursorYs}

\* words on the screen and the vocabulary of the detector configurations
Tok_Essence == <<"E","s","s","e","n","c","e">>
Tok_maps == <<"m","a","p","s">>
Tok_reflect == <<"r","e","f","l","e","c","t">>
Tok_regen == <<"r","e","g","e","n">>
Tok_gold == <<"g","o","l","d">>
Tok_Silver == <<"S","i","l","v","e","r">>
Tok_drain == <<"d","r","a","i","n">>
Tok_remnant == <<"R","e","m","n","a","n","t">>
Tok_immune == <<"i","m","m","u","n","e">>
Tok_to == <<"t","o">>
Tok_fire == <<"f","i","r","e">>
Ctx_Maps == <<"M","a","p","s">>
Mod_Reflect == <<"R","e","f","l","e","c","t">>
Mod_Regen == <<"R","e","g","e","n">>
Mod_Drain == <<"D","r","a","i","n">>
Reward_Gold == <<"G","o","l","d">>
Reward_Silver == <<"S","i","l","v","e","r">>
Dtype_Fire == <<"F","i","r","e">>
Mod_Volatile == <<"V","o","l","a","t","i","l","e">>
Kw_Essence == <<"e","s","s","e","n","c","e">>
Tier_1 == <<"1">>
Tier_2 == <<"2">>
Tier_99 == <<"9","9">>

MapCheck == [enabled |-> TRUE, required_context |-> <<Ctx_Maps>>,
             bad_mods |-> <<Mod_Reflect, Mod_Regen>>]
MapChecks == {MapCheck, [MapCheck EXCEPT !.bad_mods = <<>>],
              [MapCheck EXCEPT !.required_context = <<>>]}

\* tiers as the dict of the configuration, in its order
Tiers_12 == <<<<Tier_1, <<Reward_Gold>>>>, <<Tier_2, <<Reward_Silver>>>>>>
Tiers_21 == <<<<Tier_2, <<Reward_Silver>>>>, <<Tier_1, <<Reward_Gold>>>>>>
Tiers_99 == <<<<Tier_2, <<Reward_Silver>>>>, <<Tier_99, <<Reward_Gold>>>>>>
Altars(tiers, min_tier) ==
    [enabled |-> TRUE, bad_mods |-> <<Mod_Drain>>, min_tier_to_highlight |-> min_tier,
     tiers |-> tiers]
AltarTables == {Altars(Tiers_12, 2), Altars(Tiers_21, 2), Altars(Tiers_12, 1),
                Altars(Tiers_99, 1), Altars(Tiers_99, 99)}
Expedition == [enabled |-> TRUE, immune_warning |-> <<Dtype_Fire>>,
               bad_mods |-> <<Mod_Volatile>>]
Essence == [enabled |-> TRUE, keywords |-> <<Kw_Essence>>]

\* no syndicate goals and one detector enabled, or all of them
Cfg_Plain == [ScannerConfig EXCEPT !.syndicate_goals = <<>>]
Cfg_All ==
    [ScannerConfig EXCEPT !.essence = Essence, !.map_check = MapCheck,
                          !.eldritch_altars = Altars(Tiers_12, 2),
                          !.expedition = Expedition]
DetectConfigs ==
    {[Cfg_Plain EXCEPT !.map_check = m] : m \in MapChecks}
      \cup {[Cfg_Plain EXCEPT !.eldritch_altars = a] : a \in AltarTables}
      \cup {Cfg_All}

\* one detector enabled while a vocabulary of its own is missing: .get()
\* reads a missing list or table as the empty one
Gap_MapNoContext == [Cfg_Plain EXCEPT !.map_check = [MapCheck EXCEPT !.required_context = <<>>]]
Gap_MapNoBadMods == [Cfg_Plain EXCEPT !.map_check = [MapCheck EXCEPT !.bad_mods = <<>>]]
Gap_AltarNoTiers == [Cfg_Plain EXCEPT !.eldritch_altars = Altars(<<>>, 2)]
Gap_ExpeditionNoLists ==
    [Cfg_Plain EXCEPT !.expedition = [Expedition EXCEPT !.immune_warning = <<>>,
                                                        !.bad_mods = <<>>]]
Gap_NoKeywords ==
    [Cfg_Plain EXCEPT !.essence = [Essence EXCEPT !.keywords = <<>>],
                      !.ritual = [Essence EXCEPT !.keywords = <<>>]]
GapConfigs ==
    {Cfg_Plain, Gap_MapNoContext, Gap_MapNoBadMods, Gap_AltarNoTiers,
     Gap_ExpeditionNoLists, Gap_NoKeywords}

\* what is on the screen: for each detector nothing or words it reacts to
Words_Essence == {<<>>, <<Tok_Essence>>}
Words_Syndicate == {<<>>, <<Tok_Vorici, Tok_Research, Tok_Member>>}
Words_Map == {<<>>, <<Tok_maps, Tok_reflect>>}
Words_Altar == {<<>>, <<Tok_gold>>}
Words_Expedition == {<<>>, <<Tok_remnant, Tok_immune, Tok_to, Tok_fire>>}
DetectTexts ==
    {e \o s \o m \o a \o x : e \in Words_Essence, s \in Words_Syndicate,
                             m \in Words_Map, a \in Words_Altar, x \in Words_Expedition}
      \cup {<<Tok_maps>>, <<Tok_reflect>>, <<Tok_maps, Tok_regen, Tok_reflect>>}
      \cup {<<Tok_Silver>>, <<Tok_Silver, Tok_gold>>, <<Tok_drain>>,
            <<Tok_drain, Tok_gold>>}
      \cup {<<Tok_remnant>>, <<Tok_immune, Tok_to, Tok_fire>>}
DetectInputs ==
    {[GoodInput(PlainImage(text)) EXCEPT !.elapsed = 10] : text \in DetectTexts}


\* the four strategies of process_syndicate_ocr, each reading words of its
\* own: n of them, or one two-letter token when n = 0, or raising
Tok_of == <<"o","f">>
StrategyWords ==
    << <<"l","o","w">>, <<"h","i","g","h">>, <<"a","d","a","p","t">>,
       <<"c","o","l","o","r">> >>
Reading(k, n) ==
    IF n = 0 THEN Read(<<Tok_of>>) ELSE Read([i \in 1..n |-> StrategyWords[k]])
OcrCounts == {0, 2, 5}
OcrOutcomes(k) == {Failed} \cup {Reading(k, n) : n \in OcrCounts}
OcrImages ==
    {[first |-> Read(<<Tok_Execute>>), strategies |-> <<a, b, c, e>>,
      fallback |-> Read(<<Tok_Execute>>)] :
        a \in OcrOutcomes(1), b \in OcrOutcomes(2),
        c \in OcrOutcomes(3) \ {Reading(3, 2)}, e \in OcrOutcomes(4) \ {Failed}}
\* and two screens without a negotiation keyword, read by the first pass alone
OcrPlainImages == {PlainImage(<<Tok_Rank, Tok_of>>), PlainImage(<<>>)}
OcrInputs == {[GoodInput(img) EXCEPT !.elapsed = 20] : img \in OcrImages \cup OcrPlainImages}

\* durations of a cycle's work below, at and above the interval of the
\* center mode
CadenceElapsed == {2, 5, 7}
CadenceInputs == {[GoodInput(Img_Blank) EXCEPT !.elapsed = e] : e \in CadenceElapsed}

\* negotiation cards: the subjects recognized and the phrasing of the state
Tok_moves == <<"m","o","v","e","s">>
Tok_Fortification == <<"F","o","r","t","i","f","i","c","a","t","i","o","n">>
Tok_Leader == <<"L","e","a","d","e","r">>
Tok_Intelligence == <<"I","n","t","e","l","l","i","g","e","n","c","e">>
Tok_plus2 == <<"+","2">>
PhrasingNames ==
    {<<Tok_Vorici>>, <<Tok_aisling>>, <<Tok_Vorici, Tok_aisling>>,
     <<Tok_aisling, Tok_Vorici>>}
PhrasingPhrases ==
    {<<>>, <<Tok_Rank>>,
     <<Tok_moves, Tok_to, Tok_Research>>,
     <<Tok_Leader, Tok_Fortification>>,
     <<Tok_Research, Tok_Member>>,
     <<Tok_Leader, Tok_Fortification, Tok_moves, Tok_to, Tok_Research>>,
     <<Tok_moves, Tok_to, Tok_Research, Tok_Member>>,
     <<Tok_Research, Tok_Member, Tok_Fortification>>,
     <<Tok_plus2, Tok_Fortification, Tok_Intelligence, Tok_Research, Tok_Member>>}
PhrasingInputs ==
    {[GoodInput(PlainImage(names \o phrase)) EXCEPT !.elapsed = 10] :
        names \in PhrasingNames, phrase \in PhrasingPhrases}

\* keywords of the two keyword detectors and the words they are looked up in
Kw_of_Woe == <<"o","f"," ","W","o","e">>
Kw_of == <<"o","f">>
Kw_FUL == <<"F","U","L">>
Tok_woe == <<"w","o","e">>
Tok_WOEFUL == <<"W","O","E","F","U","L">>
Cfg_Keywords ==
    [Cfg_Plain EXCEPT !.essence = [enabled |-> TRUE,
                                   keywords |-> <<Kw_Essence, Kw_of_Woe, Kw_of>>],
                      !.ritual = [enabled |-> TRUE, keywords |-> <<Kw_FUL>>]]
KeywordConfigs ==
    {Cfg_Keywords, [Cfg_Keywords EXCEPT !.ritual.enabled = FALSE]}
KeywordWords == {Tok_Essence, Tok_of, Tok_woe, Tok_WOEFUL}
KeywordTexts ==
    SeqsUpTo(KeywordWords, 2)
      \cup {<<Tok_of, Tok_woe, Tok_Essence>>, <<Tok_WOEFUL, Tok_of, Tok_Essence>>,
            <<Tok_Essence, Tok_of, Tok_woe>>}
KeywordInputs ==
    {[GoodInput(PlainImage(text)) EXCEPT !.elapsed = 10] : text \in KeywordTexts}

\* windows of the game: full screen, on a monitor left of the primary one,
\* and of odd size away from the origin; durations of a cycle's work
Rect_Left == [top |-> 31, left |-> -1001, width |-> 1001, height |-> 777]
Rect_Odd == [top |-> 50, left |-> 100, width |-> 1921, height |-> 1081]
BoardRects == {WindowRect, Rect_Left, Rect_Odd}
BoardElapsed == {7, 10}
BoardInputs ==
    {[GoodInput(img) EXCEPT !.rect = Some(rect), !.elapsed = e] :
        img \in {Img_Decision, Img_Blank}, rect \in BoardRects, e \in BoardElapsed}
      \cup {[GoodInput(Img_Blank) EXCEPT !.rect = None, !.elapsed = e] : e \in BoardElapsed}

MatcherIdle ==
    /\ known_tabs = <<>>
    /\ ocr_text = <<>>
    /\ matched = None
    /\ tab_pc = "matched"

-----------------------------------------------------------------------------
(* image_facts, evaluated once for the images and goals of the model       *)

ImagesOf(inputs) == {inp.img : inp \in inputs}

\* the configurations and the images each of them is run with
FactConfigs ==
    {ScannerConfig, Cfg_Plain} \cup RegionConfigs \cup DetectConfigs \cup GapConfigs
      \cup KeywordConfigs
FactImages(cfg) ==
    IF cfg \in DetectConfigs \cup (GapConfigs \ {Cfg_Plain}) THEN ImagesOf(DetectInputs)
    ELSE IF cfg = Cfg_Plain THEN ImagesOf(OcrInputs \cup DetectInputs)
    ELSE IF cfg \in KeywordConfigs THEN ImagesOf(KeywordInputs)
    ELSE ImagesOf(ResolverInputs \cup LoopInputs \cup RegionInputs \cup PhrasingInputs)

FactsTable ==
    [cfg \in FactConfigs |-> [img \in FactImages(cfg) |-> image_facts(img, cfg)]]

\* the detectors and the emission, from the facts f of the image and the
\* outcome synd of check_syndicate
detect(f, synd, results, memory, board, last_seen, t) ==
    IF f.rec.error
    THEN [raised |-> FALSE, found |-> FALSE, emitted |-> None,
          memory |-> memory, in_syndicate_board |-> board,
          syndicate_board_last_seen |-> last_seen,
          data_text |-> <<>>, full_text |-> <<>>,
          synd |-> syndicate_nothing(memory), outcome |-> "ocr_error"]
    ELSE IF f.rec.raised
    THEN [raised |-> TRUE, found |-> FALSE, emitted |-> None,
          memory |-> memory, in_syndicate_board |-> TRUE,
          syndicate_board_last_seen |-> t,
          data_text |-> <<>>, full_text |-> <<>>,
          synd |-> syndicate_nothing(memory), outcome |-> "raised"]
    ELSE [raised |-> FALSE,
          found |-> results # <<>> \/ f.map_context,
          emitted |-> IF results # <<>> THEN Some(results[1]) ELSE None,
          memory |-> synd.memory,
          in_syndicate_board |-> (f.rec.ctx \/ board),
          syndicate_board_last_seen |-> IF f.rec.ctx THEN t ELSE last_seen,
          data_text |-> f.rec.data_text, full_text |-> f.rec.full_text,
          synd |-> synd, outcome |-> "processed"]

\* check_syndicate is skipped in a hideout
syndicate_unless_hideout(f, zone, memory, t) ==
    IF str_in(kw_Hideout, zone) THEN syndicate_nothing(memory)
    ELSE syndicate_memory_logic(f.scan, memory, t)

\* variant: the danger detectors ahead of the keywords and the resolver
results_of_danger_first(f, in_hideout, synd) ==
    IF in_hideout THEN f.map
    ELSE f.altar \o f.expedition \o f.keyword \o synd.result

\* the list results of process_image, in the order the detectors append to it
results_of(f, in_hideout, synd) ==
    IF in_hideout THEN f.map
    ELSE f.keyword \o synd.result \o f.altar \o f.expedition

detect_with(f, in_hideout, synd, memory, board, last_seen, t) ==
    detect(f, synd, results_of(f, in_hideout, synd), memory, board, last_seen, t)

process_facts(f, zone, memory, board, last_seen, t) ==
    detect_with(f, str_in(kw_Hideout, zone), syndicate_unless_hideout(f, zone, memory, t),
                memory, board, last_seen, t)

\* process_image(img) in zone `zone` at time t: what it returns (found),
\* what it emits (emitted), the fields it leaves behind, whether an
\* exception leaves it (raised), and the data handed to the detectors.
process_image(img, zone, cfg, memory, board, last_seen, t) ==
    process_facts(FactsTable[cfg][img], zone, memory, board, last_seen, t)

-----------------------------------------------------------------------------
(* ScannerWorker: construction, control interface and the scan loop        *)

MaxTime == 32

\* (time.time() - self.syndicate_board_last_seen) < 3.0, and time.sleep(0.5)
BoardDwell == 30
GateBackoff == 5

NoCycle ==
    [outcome |-> "none", time |-> 0, strategy |-> "none", region |-> None,
     data_text |-> <<>>, full_text |-> <<>>, via |-> "none", best_priority |-> 0,
     current_member_name |-> None, best_member |-> None, own |-> None,
     found |-> FALSE, img |-> None, elapsed |-> 0, held |-> None, rect |-> None]

\* ScannerWorker.__init__(config), on a machine with the given screen
ScannerInit(cfg, scr, zone) ==
    /\ config = cfg
    /\ running = FALSE
    /\ paused = FALSE
    /\ current_zone = zone
    /\ tooltip_side_mode = 0
    /\ manual_override = None
    /\ syndicate_memory = empty_dict
    /\ in_syndicate_board = FALSE
    /\ syndicate_board_last_seen = 0
    /\ pc = "new"
    /\ last_strategy = None
    /\ now = 0
    /\ focused = TRUE
    /\ screen = scr
    /\ result_signal = None
    /\ last_cycle = NoCycle
    /\ stop_called = FALSE

\* QThread.start(): the worker thread exists, run() has not begun
start ==
    /\ pc = "new"
    /\ pc' = "started"
    /\ UNCHANGED <<matcherVars, workerFields, last_strategy, now, focused, screen,
                   result_signal, last_cycle, stop_called>>

\* stop(), from any thread
stop ==
    /\ pc # "new"
    /\ running' = FALSE
    /\ stop_called' = TRUE
    /\ UNCHANGED <<matcherVars, config, paused, current_zone, tooltip_side_mode,
                   manual_override, syndicate_memory, in_syndicate_board,
                   syndicate_board_last_seen, pc, last_strategy, now, focused,
                   screen, result_signal, last_cycle>>

\* _on_stop_hotkey(), on the keyboard hook's thread: emits, then stop()
on_stop_hotkey ==
    /\ pc # "new"
    /\ ~stop_called
    /\ running' = FALSE
    /\ stop_called' = TRUE
    /\ UNCHANGED <<matcherVars, config, paused, current_zone, tooltip_side_mode,
                   manual_override, syndicate_memory, in_syndicate_board,
                   syndicate_board_last_seen, pc, last_strategy, now, focused,
                   screen, result_signal, last_cycle>>

pause ==
    /\ paused' = TRUE
    /\ UNCHANGED <<matcherVars, config, running, current_zone, tooltip_side_mode,
                   manual_override, syndicate_memory, in_syndicate_board,
                   syndicate_board_last_seen, pc, last_strategy, now, focused,
                   screen, result_signal, last_cycle, stop_called>>

resume ==
    /\ paused' = FALSE
    /\ UNCHANGED <<matcherVars, config, running, current_zone, tooltip_side_mode,
                   manual_override, syndicate_memory, in_syndicate_board,
                   syndicate_board_last_seen, pc, last_strategy, now, focused,
                   screen, result_signal, last_cycle, stop_called>>

set_zone(zone) ==
    /\ current_zone' = zone
    /\ UNCHANGED <<matcherVars, config, running, paused, tooltip_side_mode,
                   manual_override, syndicate_memory, in_syndicate_board,
                   syndicate_board_last_seen, pc, last_strategy, now, focused,
                   screen, result_signal, last_cycle, stop_called>>

set_manual_override(mode) ==
    /\ manual_override' = mode
    /\ UNCHANGED <<matcherVars, config, running, paused, current_zone,
                   tooltip_side_mode, syndicate_memory, in_syndicate_board,
                   syndicate_board_last_seen, pc, last_strategy, now, focused,
                   screen, result_signal, last_cycle, stop_called>>

\* toggle_mode(): force the other strategy
toggle_mode ==
    /\ manual_override' =
          Some(IF get_active_strategy(manual_override, current_zone) = "mouse"
               THEN "center" ELSE "mouse")
    /\ UNCHANGED <<matcherVars, config, running, paused, current_zone,
                   tooltip_side_mode, syndicate_memory, in_syndicate_board,
                   syndicate_board_last_seen, pc, last_strategy, now, focused,
                   screen, result_signal, last_cycle, stop_called>>

\* the foreground window changes (what is_poe_focused reads)
focus_change ==
    /\ focused' = ~focused
    /\ UNCHANGED <<matcherVars, workerFields, pc, last_strategy, now, screen,
                   result_signal, last_cycle, stop_called>>

\* run(), up to the loop: self.running = True, the initial mode is emitted
run_begin ==
    /\ pc = "started"
    /\ running' = TRUE
    /\ last_strategy' = Some(get_active_strategy(manual_override, current_zone))
    /\ pc' = "while"
    /\ UNCHANGED <<matcherVars, config, paused, current_zone, tooltip_side_mode,
                   manual_override, syndicate_memory, in_syndicate_board,
                   syndicate_board_last_seen, now, focused, screen,
                   result_signal, last_cycle, stop_called>>

\* while self.running:
while_check ==
    /\ pc = "while"
    /\ pc' = IF running THEN "gate" ELSE "done"
    /\ UNCHANGED <<matcherVars, workerFields, last_strategy, now, focused, screen,
                   result_signal, last_cycle, stop_called>>

\* variant: the pause flag alone
gate_closed_paused_only(is_paused, is_focused) == is_paused

\* variant: the focus test alone
gate_closed_focus_only(is_paused, is_focused) == ~is_focused

\* self.paused or not self.is_poe_focused()
gate_closed(is_paused, is_focused) == is_paused \/ ~is_focused

\* if self.paused or not self.is_poe_focused(): time.sleep(0.5); continue
gate_check ==
    /\ pc = "gate"
    /\ IF gate_closed(paused, focused)
       THEN /\ now <= MaxTime
            /\ now' = now + GateBackoff
            /\ pc' = "while"
       ELSE /\ now' = now
            /\ pc' = "body"
    /\ UNCHANGED <<matcherVars, workerFields, last_strategy, focused, screen,
                   result_signal, last_cycle, stop_called>>

\* variant: the cursor-anchored region of the mouse strategy comes before
\* the expanded region
select_region_mouse_first(strategy, rect, cursor, cfg, side, board, last_seen, t, scr) ==
    IF rect = None THEN [raised |-> FALSE, region |-> None]
    ELSE IF strategy = "mouse" /\ HAS_WIN32
        THEN IF cursor = None THEN [raised |-> TRUE, region |-> None]
             ELSE [raised |-> FALSE,
                   region |-> Some(hover_region(cursor[1][1], cursor[1][2],
                                                cfg.scan_region_hover, side, scr))]
    ELSE IF board /\ (t - last_seen) < BoardDwell
        THEN [raised |-> FALSE, region |-> Some(syndicate_region(rect[1]))]
    ELSE [raised |-> FALSE, region |-> Some(center_region(rect[1], cfg.scan_region))]

\* variant: the expanded region stays selected once the board was seen
select_region_sticky(strategy, rect, cursor, cfg, side, board, last_seen, t, scr) ==
    IF rect = None THEN [raised |-> FALSE, region |-> None]
    ELSE IF board
        THEN [raised |-> FALSE, region |-> Some(syndicate_region(rect[1]))]
    ELSE IF strategy = "mouse" /\ HAS_WIN32
        THEN IF cursor = None THEN [raised |-> TRUE, region |-> None]
             ELSE [raised |-> FALSE,
                   region |-> Some(hover_region(cursor[1][1], cursor[1][2],
                                                cfg.scan_region_hover, side, scr))]
    ELSE [raised |-> FALSE, region |-> Some(center_region(rect[1], cfg.scan_region))]

\* The region of one cycle: None without a window rectangle, "raise" when
\* the cursor query raises, else Some(region).
select_region(strategy, rect, cursor, cfg, side, board, last_seen, t, scr) ==
    IF rect = None THEN [raised |-> FALSE, region |-> None]
    ELSE IF board /\ (t - last_seen) < BoardDwell
        THEN [raised |-> FALSE, region |-> Some(syndicate_region(rect[1]))]
    ELSE IF strategy = "mouse" /\ HAS_WIN32
        THEN IF cursor = None THEN [raised |-> TRUE, region |-> None]
             ELSE [raised |-> FALSE,
                   region |-> Some(hover_region(cursor[1][1], cursor[1][2],
                                                cfg.scan_region_hover, side, scr))]
    ELSE [raised |-> FALSE, region |-> Some(center_region(rect[1], cfg.scan_region))]

\* variant: the difference itself
sleep_time_signed(interval, elapsed) == interval - elapsed

\* sleep_time = max(0, (interval_ms / 1000.0) - elapsed)
sleep_time(interval, elapsed) == Max(0, interval - elapsed)

\* what one iteration leaves in last_cycle: its start, its locals, the image
\* processed and the duration of its work
cycle_record(t, strategy, sel, inp, p) ==
    LET capture == inp.capture
        seen == [NoCycle EXCEPT !.time = t, !.strategy = strategy, !.region = sel.region,
                                !.elapsed = inp.elapsed, !.rect = inp.rect]
    IN  IF sel.raised THEN [seen EXCEPT !.outcome = "cursor_raised"]
        ELSE IF sel.region = None THEN [seen EXCEPT !.outcome = "no_rect"]
        ELSE IF capture = "raise" THEN [seen EXCEPT !.outcome = "capture_raised"]
        ELSE IF capture = "none" THEN [seen EXCEPT !.outcome = "no_image"]
        ELSE [seen EXCEPT !.outcome = p.outcome,
                          !.data_text = p.data_text,
                          !.full_text = p.full_text,
                          !.via = p.synd.via,
                          !.best_priority = p.synd.best_priority,
                          !.current_member_name = p.synd.current_member_name,
                          !.best_member = p.synd.best_member,
                          !.own = p.synd.own,
                          !.held = p.synd.held,
                          !.found = p.found,
                          !.img = Some(inp.img)]

\* One iteration of the loop body, from get_active_strategy() to the sleep.
\* inp: rect (None or Some), cursor (None when GetCursorPos raises),
\* capture ("image", "none", "raise"), img, elapsed (the work's duration).
\* strategy, sel (the region) and p (process_image's outcome) are the
\* iteration's locals; p is read only when the image is processed.
scan_cycle(inp) ==
    \E strategy \in {get_active_strategy(manual_override, current_zone)} :
    \E sel \in {select_region(strategy, inp.rect, inp.cursor, config, tooltip_side_mode,
                              in_syndicate_board, syndicate_board_last_seen, now, screen)} :
    \E p \in {process_image(inp.img, current_zone, config,
                            syndicate_memory, in_syndicate_board,
                            syndicate_board_last_seen, now)} :
    \E processing \in {~sel.raised /\ sel.region # None /\ inp.capture = "image"} :
    \E crashed \in {\/ sel.raised
                    \/ sel.region # None /\ inp.capture = "raise"
                    \/ processing /\ p.raised} :
    \E interval \in {IF strategy = "mouse" THEN config.scan_interval_mouse
                     ELSE config.scan_interval_center} :
        /\ pc = "body"
        /\ last_strategy' = Some(strategy)
        /\ now <= MaxTime
        /\ now' = IF crashed THEN now
                  ELSE now + inp.elapsed + sleep_time(interval, inp.elapsed)
        /\ pc' = IF crashed THEN "crashed" ELSE "while"
        /\ syndicate_memory' = IF processing THEN p.memory ELSE syndicate_memory
        /\ in_syndicate_board' = IF processing THEN p.in_syndicate_board
                                 ELSE in_syndicate_board
        /\ syndicate_board_last_seen' = IF processing THEN p.syndicate_board_last_seen
                                        ELSE syndicate_board_last_seen
        /\ tooltip_side_mode' =
              IF processing /\ ~p.raised /\ strategy = "mouse" /\ ~p.found
              THEN 1 - tooltip_side_mode ELSE tooltip_side_mode
        /\ result_signal' = IF processing THEN p.emitted ELSE None
        /\ last_cycle' = cycle_record(now, strategy, sel, inp, p)
        /\ UNCHANGED <<matcherVars, config, running, paused, current_zone,
                       manual_override, focused, screen, stop_called>>

-----------------------------------------------------------------------------
(* The resolver under an undisturbed scan loop                             *)

ResolverInit == MatcherIdle /\ ScannerInit(ScannerConfig, FullHd, Zone_Map)

ResolverNext ==
    \/ start
    \/ run_begin
    \/ while_check
    \/ gate_check
    \/ \E inp \in ResolverInputs : scan_cycle(inp)

SpecResolver == ResolverInit /\ [][ResolverNext]_vars

-----------------------------------------------------------------------------
(* The worker thread with the threads that control it                      *)

Zones == {Zone_Hideout, Zone_Map}

\* toggle_scanner: ScannerWorker(config), set_zone(...), then start()
Init == MatcherIdle /\ \E zone \in Zones : ScannerInit(ScannerConfig, FullHd, zone)

Next ==
    \/ start
    \/ stop
    \/ on_stop_hotkey
    \/ pause
    \/ resume
    \/ \E zone \in Zones : set_zone(zone)
    \/ set_manual_override(None)
    \/ toggle_mode
    \/ focus_change
    \/ run_begin
    \/ while_check
    \/ gate_check
    \/ \E inp \in LoopInputs : scan_cycle(inp)

Spec == Init /\ [][Next]_vars

-----------------------------------------------------------------------------
(* The cursor-anchored region on the screens and configurations drawn      *)

RegionInit ==
    /\ MatcherIdle
    /\ \E cfg \in RegionConfigs, scr \in Screens : ScannerInit(cfg, scr, Zone_Hideout)

RegionNext ==
    \/ start
    \/ run_begin
    \/ while_check
    \/ gate_check
    \/ \E inp \in RegionInputs : scan_cycle(inp)

SpecRegion == RegionInit /\ [][RegionNext]_vars

-----------------------------------------------------------------------------
(* The detectors under the configurations and screen texts drawn           *)

DetectInit ==
    /\ MatcherIdle
    /\ \E cfg \in DetectConfigs, zone \in Zones : ScannerInit(cfg, FullHd, zone)

DetectNext ==
    \/ start
    \/ run_begin
    \/ while_check
    \/ gate_check
    \/ \E inp \in DetectInputs : scan_cycle(inp)

SpecDetect == DetectInit /\ [][DetectNext]_vars

-----------------------------------------------------------------------------
(* The multi-strategy recognition pass on the images drawn                 *)

OcrInit == MatcherIdle /\ ScannerInit(Cfg_Plain, FullHd, Zone_Map)

OcrNext ==
    \/ start
    \/ run_begin
    \/ while_check
    \/ gate_check
    \/ \E inp \in OcrInputs : scan_cycle(inp)

SpecOcr == OcrInit /\ [][OcrNext]_vars

-----------------------------------------------------------------------------
(* The cadence of the loop for the durations drawn                         *)

CadenceInit == MatcherIdle /\ \E zone \in Zones : ScannerInit(ScannerConfig, FullHd, zone)

CadenceNext ==
    \/ start
    \/ run_begin
    \/ while_check
    \/ gate_check
    \/ \E inp \in CadenceInputs : scan_cycle(inp)

SpecCadence == CadenceInit /\ [][CadenceNext]_vars

-----------------------------------------------------------------------------
(* The resolver on the phrasings of the state                              *)

PhrasingInit == MatcherIdle /\ ScannerInit(ScannerConfig, FullHd, Zone_Map)

PhrasingNext ==
    \/ start
    \/ run_begin
    \/ while_check
    \/ gate_check
    \/ \E inp \in PhrasingInputs : scan_cycle(inp)

SpecPhrasing == PhrasingInit /\ [][PhrasingNext]_vars

-----------------------------------------------------------------------------
(* The mode under zone changes and overrides                               *)

ModeZones == {Zone_Hideout, Zone_Map, Zone_Unknown}
Overrides == {None, Some("mouse"), Some("center")}

ModeInit == MatcherIdle /\ \E zone \in ModeZones : ScannerInit(ScannerConfig, FullHd, zone)

ModeNext ==
    \/ start
    \/ \E zone \in ModeZones : set_zone(zone)
    \/ \E mode \in Overrides : set_manual_override(mode)
    \/ toggle_mode
    \/ run_begin
    \/ while_check
    \/ gate_check
    \/ scan_cycle(GoodInput(Img_Blank))

SpecMode == ModeInit /\ [][ModeNext]_vars

-----------------------------------------------------------------------------
(* The expanded region under the zones, overrides and windows drawn        *)

BoardInit == MatcherIdle /\ \E zone \in Zones : ScannerInit(ScannerConfig, FullHd, zone)

BoardNext ==
    \/ start
    \/ \E mode \in Overrides : set_manual_override(mode)
    \/ run_begin
    \/ while_check
    \/ gate_check
    \/ \E inp \in BoardInputs : scan_cycle(inp)

SpecBoard == BoardInit /\ [][BoardNext]_vars

-----------------------------------------------------------------------------
(* The detectors enabled without a vocabulary                              *)

GapInit ==
    /\ MatcherIdle
    /\ \E cfg \in GapConfigs, zone \in Zones : ScannerInit(cfg, FullHd, zone)

GapNext ==
    \/ start
    \/ run_begin
    \/ while_check
    \/ gate_check
    \/ \E inp \in DetectInputs : scan_cycle(inp)

SpecGap == GapInit /\ [][GapNext]_vars

-----------------------------------------------------------------------------
(* The keyword detectors on the words drawn                                *)

KeywordInit ==
    /\ MatcherIdle
    /\ \E cfg \in KeywordConfigs, zone \in Zones : ScannerInit(cfg, FullHd, zone)

KeywordNext ==
    \/ start
    \/ run_begin
    \/ while_check
    \/ gate_check
    \/ \E inp \in KeywordInputs : scan_cycle(inp)

SpecKeyword == KeywordInit /\ [][KeywordNext]_vars

-----------------------------------------------------------------------------
(* TabTracker operations                                                   *)

MatcherInit ==
    /\ known_tabs \in TabLists
    /\ ocr_text \in RawTexts
    /\ matched = None
    /\ tab_pc = "captured"
    /\ ScannerInit(ScannerConfig, FullHd, Zone_Unknown)

\* detect_tab_name / TabTrackerWorker.run: matched = _match_tab_name(text)
detect_tab_name ==
    /\ tab_pc = "captured"
    /\ matched' = match_tab_name(ocr_text, known_tabs)
    /\ tab_pc' = "matched"
    /\ UNCHANGED <<known_tabs, ocr_text, scannerVars>>

MatcherNext == detect_tab_name

SpecMatch == MatcherInit /\ [][MatcherNext]_vars

-----------------------------------------------------------------------------
(* Claims about the fuzzy matcher (checked under SpecMatch)                *)

Text_stash == <<"s","t","a","s","h">>
Text_s1 == <<"s","1">>
Text_xx_s1_xx == <<"x","x"," ","s","1"," ","x","x">>
StashVocabulary == <<Tab_Stash1, Tab_Stash2>>

IsSeparator(c) == \E k \in 1..Len(separators) : separators[k] = c

\* The candidates, stated without the splitting loop: the maximal
\* separator-free stretches of the lower-cased text, trimmed, empty ones out.
StatedCandidates(text) ==
    LET l == lower(text)
        stretch(i, j) ==
            /\ \A k \in i..j : ~IsSeparator(l[k])
            /\ (i = 1 \/ IsSeparator(l[i - 1]))
            /\ (j = Len(l) \/ IsSeparator(l[j + 1]))
    IN  {strip(SubSeq(l, p[1], p[2])) :
            p \in {q \in (1..Len(l)) \X (1..Len(l)) :
                     q[1] <= q[2] /\ stretch(q[1], q[2])}} \ {<<>>}

\* The clean form, stated without split: what follows the last '|', trimmed.
StatedClean(tab) ==
    LET l == lower(tab)
        bars == {i \in 1..Len(l) : l[i] = "|"}
    IN  IF bars = {} THEN l
        ELSE strip(SubSeq(l, (CHOOSE i \in bars : \A j \in bars : j <= i) + 1, Len(l)))

\* rules (a) to (d) of the claim for one candidate and one entry
StatedRule(c, tab) ==
    \/ c = StatedClean(tab)
    \/ c = lower(tab)
    \/ Len(c) >= 3 /\ str_in(c, lower(tab))
    \/ Len(StatedClean(tab)) >= 2 /\ str_in(pad(StatedClean(tab)), pad(c))

StatedHits(text, tabs) ==
    {t \in 1..Len(tabs) : \E c \in StatedCandidates(text) : StatedRule(c, tabs[t])}

FirstOf(hits, tabs) ==
    IF hits = {} THEN None
    ELSE Some(tabs[CHOOSE t \in hits : \A u \in hits : t <= u])

\* C6: match("stash", ["Stash 1 | S1", "Stash 2 | S2"]) returns none, and a
\* raw text that is a proper prefix of the full names of two or more entries
\* and equals no entry's clean form matches no entry.
C6_GenericPrefixMatchesNothing ==
    tab_pc = "matched" =>
        /\ (ocr_text = Text_stash /\ known_tabs = StashVocabulary => matched = None)
        /\ LET l == strip(lower(ocr_text))
               prefixed == {t \in 1..Len(known_tabs) :
                               /\ Len(l) < Len(known_tabs[t])
                               /\ SubSeq(lower(known_tabs[t]), 1, Len(l)) = l}
           IN  (/\ l # <<>>
                /\ Cardinality(prefixed) >= 2
                /\ \A t \in 1..Len(known_tabs) : StatedClean(known_tabs[t]) # l)
               => matched = None

\* C7 as stated: the result is the first entry, in caller order, for which
\* some candidate satisfies one of the rules (a) to (d), and none exactly
\* when no entry has such a candidate.
C7_FirstEntryWithRule ==
    tab_pc = "matched" =>
        matched = FirstOf(StatedHits(ocr_text, known_tabs), known_tabs)

\* C7 amended: the same, over the entries whose clean form is not empty
\* (an entry with an empty clean form is skipped and never returned).
C7_FirstEntryWithRuleAndCleanForm ==
    tab_pc = "matched" =>
        matched = FirstOf({t \in StatedHits(ocr_text, known_tabs) :
                              StatedClean(known_tabs[t]) # <<>>}, known_tabs)

\* a match by a rule, over an entry with a non-empty clean form, after an
\* earlier entry that is skipped although rule (c) holds for it
C7_Witness ==
    /\ tab_pc = "matched"
    /\ Len(known_tabs) = 2
    /\ StatedHits(ocr_text, known_tabs) = {1, 2}
    /\ StatedClean(known_tabs[1]) = <<>>
    /\ matched = Some(known_tabs[2])

\* C8: over ["Stash 1 | S1", "Stash 2 | S2"], "s1" gives "Stash 1 | S1" by
\* the clean-form rule and "xx s1 xx" gives it by the token-boundary rule
\* alone; whatever is returned is an entry in its original spelling.
C8_ExactAndTokenMatch ==
    tab_pc = "matched" =>
        /\ (known_tabs = StashVocabulary /\ ocr_text = Text_s1 =>
               /\ matched = Some(Tab_Stash1)
               /\ Text_s1 = StatedClean(Tab_Stash1))
        /\ (known_tabs = StashVocabulary /\ ocr_text = Text_xx_s1_xx =>
               /\ matched = Some(Tab_Stash1)
               /\ StatedCandidates(Text_xx_s1_xx) = {Text_xx_s1_xx}
               /\ Text_xx_s1_xx # StatedClean(Tab_Stash1)
               /\ Text_xx_s1_xx # lower(Tab_Stash1)
               /\ ~str_in(Text_xx_s1_xx, lower(Tab_Stash1))
               /\ str_in(pad(StatedClean(Tab_Stash1)), pad(Text_xx_s1_xx)))
        /\ (matched # None => \E t \in 1..Len(known_tabs) : matched = Some(known_tabs[t]))

C8_Witness ==
    /\ tab_pc = "matched"
    /\ known_tabs = StashVocabulary
    /\ ocr_text = Text_xx_s1_xx
    /\ matched = Some(Tab_Stash1)

-----------------------------------------------------------------------------
(* Claims about the resolver's memory (checked under SpecResolver)         *)

\* the subject keys of the memory (every key but the general slot)
subject_keys(memory) == DOMAIN memory \ {key_last_good}

\* a step that runs one complete cycle of the loop
cycle_done == pc = "body" /\ pc' = "while"

\* the Decision names the subject S it was composed for: its message opens
\* with the subject's name
concerns(decision, S) ==
    /\ Len(decision.message) >= Len(S)
    /\ SubSeq(decision.message, 1, Len(S)) = S

\* no tier-3 result has been recorded since the entry of S was written
latest_record(memory, S) ==
    /\ key_last_good \in DOMAIN memory
    /\ memory[key_last_good][1] = memory[S][1]

\* C1 (as stated): a tier-3 Decision D recorded for S at time T, no tier-3
\* result being recorded since, is returned unchanged by the cycle at
\* T + 2.9 s whose own result is lower-tier or absent (the negotiation
\* context being on screen), and the cycle at T + 3.1 s returns its own
\* result instead of D.
C1_CachedUntilThreeSeconds ==
    [][cycle_done =>
        \A S \in subject_keys(syndicate_memory) :
            LET age == now - syndicate_memory[S][1]
                D == syndicate_memory[S][2]
            IN  (/\ latest_record(syndicate_memory, S)
                 /\ last_cycle'.best_priority < 3
                 /\ has_syndicate_context(last_cycle'.full_text)) =>
                    /\ age = 29 => result_signal' = Some(D)
                    /\ age = 31 => /\ result_signal' # Some(D)
                                   /\ result_signal' = last_cycle'.own]_vars

\* C1 (amended): a tier-3 Decision D recorded under key S, no tier-3 result
\* being recorded since, is returned unchanged by a later cycle whose last
\* recognized subject is S and whose best candidate is lower-tier when the
\* entry is younger than 3.0 s; from 3.0 s on that cycle returns its own
\* result. A cycle that recognizes no subject returns D when negotiation
\* context is present and the entry is younger than 2.0 s, and returns
\* nothing from 2.0 s on (so nothing at T + 2.9 s and at T + 3.1 s).
C1_CachedForLastRecognizedSubject ==
    [][cycle_done =>
        \A S \in subject_keys(syndicate_memory) :
            LET age == now - syndicate_memory[S][1]
                D == syndicate_memory[S][2]
                last == last_cycle'.current_member_name
            IN  (latest_record(syndicate_memory, S) /\ last_cycle'.best_priority < 3) =>
                    /\ (last = Some(S) /\ age < MemberTtl) => result_signal' = Some(D)
                    /\ (last = Some(S) /\ age >= MemberTtl) =>
                            /\ result_signal' = last_cycle'.own
                            /\ result_signal' # Some(D)
                    /\ (last = None /\ age < FallbackTtl
                          /\ has_syndicate_context(last_cycle'.full_text)) =>
                            result_signal' = Some(D)
                    /\ (last = None /\ age >= FallbackTtl) => result_signal' = None]_vars

\* a cycle 2.9 s after the record, recognizing S with a lower-tier
\* candidate, has returned the recorded Decision instead of its own
C1_Witness ==
    \E S \in subject_keys(syndicate_memory) :
        /\ latest_record(syndicate_memory, S)
        /\ last_cycle.outcome = "processed"
        /\ last_cycle.current_member_name = Some(S)
        /\ last_cycle.best_priority \in {1, 2}
        /\ last_cycle.time - syndicate_memory[S][1] = 29
        /\ result_signal = Some(syndicate_memory[S][2])
        /\ result_signal # last_cycle.own

\* C2: every memory entry keyed by subject S holds a Decision that concerns
\* S, also after cycles that recognize two or more configured subjects.
C2_EntryConcernsItsSubject ==
    \A S \in subject_keys(syndicate_memory) : concerns(syndicate_memory[S][2], S)

\* C10: a Decision other than the cycle's own is returned only from the
\* memory: from the general slot only when no token matched a configured
\* subject, negotiation context is present in the text and the slot is
\* younger than 2 s; otherwise from a subject-keyed entry younger than 3 s.
C10_SubstitutionWithinTtl ==
    [][(cycle_done /\ result_signal' # last_cycle'.own) =>
        LET hits == syndicate_hits(last_cycle'.data_text, config.syndicate_goals)
            slot == dict_get(syndicate_memory, key_last_good)
        IN  IF hits = <<>>
            THEN /\ has_syndicate_context(last_cycle'.full_text)
                 /\ slot # None
                 /\ now - slot[1][1] < FallbackTtl
                 /\ result_signal' = Some(slot[1][2])
            ELSE \E S \in subject_keys(syndicate_memory) :
                    /\ now - syndicate_memory[S][1] < MemberTtl
                    /\ result_signal' = Some(syndicate_memory[S][2])]_vars

\* a cycle without any subject token has returned the general slot, 1.9 s old
C10_Witness ==
    /\ last_cycle.outcome = "processed"
    /\ syndicate_hits(last_cycle.data_text, config.syndicate_goals) = <<>>
    /\ key_last_good \in DOMAIN syndicate_memory
    /\ last_cycle.time - syndicate_memory[key_last_good][1] = 19
    /\ result_signal = Some(syndicate_memory[key_last_good][2])

-----------------------------------------------------------------------------
(* Claims about the loop and its failure handling (checked under Spec)     *)

\* C3: once stop() has been called after start(), the loop test ends the
\* loop: the worker does not pass from the test into another iteration.
C3_StopEndsTheLoop ==
    [][(stop_called /\ pc = "while") => pc' # "gate"]_vars

\* C4: a recognition-engine error of any recognition call of a cycle does
\* not leave process_image and does not end the worker.
C4_RecognitionErrorIsCaught ==
    pc = "crashed" => last_cycle.outcome # "raised"

\* C5: a failing capture or cursor query does not end the worker.
C5_CaptureFailureIsNotFatal ==
    pc = "crashed" => last_cycle.outcome \notin {"cursor_raised", "capture_raised"}

-----------------------------------------------------------------------------
(* Claim about the cursor-anchored region (checked under SpecRegion)       *)

\* C9: the rectangle computed in mouse mode lies within the screen.
C9_HoverRegionWithinScreen ==
    (last_cycle.strategy = "mouse" /\ last_cycle.region # None) =>
        LET r == last_cycle.region[1]
        IN  /\ r.left >= 0
            /\ r.top >= 0
            /\ r.left + r.width <= screen_size(screen)[1]
            /\ r.top + r.height <= screen_size(screen)[2]

-----------------------------------------------------------------------------
(* The detectors                                                           *)

\* the word occurs in the text, letter case ignored
occurs(word, text) == str_in(lower(word), lower(text))

in_hideout == str_in(kw_Hideout, current_zone)

\* C11: with the map check enabled, a cycle in the hideout whose text holds
\* no configured context keyword yields no Finding of the map check, bad mod
\* or not; with a context keyword and a configured bad mod in the text it
\* yields a danger Finding that is blocking and carries the configured
\* region of the map device button; with a context keyword and no bad mod
\* it yields the non-blocking "MAP SAFE" info Finding.
C11_MapSafetyNeedsContext ==
    [][(cycle_done /\ last_cycle'.outcome = "processed" /\ in_hideout
          /\ config.map_check.enabled) =>
        LET text == last_cycle'.full_text
            cfg == config.map_check
            context == \E k \in 1..Len(cfg.required_context) :
                           occurs(cfg.required_context[k], text)
            bad == {k \in 1..Len(cfg.bad_mods) : occurs(cfg.bad_mods[k], text)}
        IN  /\ ~context => result_signal' = None
            /\ (context /\ bad # {}) =>
                  /\ result_signal' # None
                  /\ result_signal'[1].color = "red"
                  /\ result_signal'[1].is_blocking
                  /\ result_signal'[1].blocker_rect = Some(config.map_device_button)
                  /\ \E k \in bad :
                        result_signal'[1].message = txt_unsafe_map \o upper(cfg.bad_mods[k])
            /\ (context /\ bad = {}) =>
                  result_signal' = Some(ScanResult(txt_map_safe, "green"))]_vars

\* a hideout cycle has read a map tooltip with a bad mod and emitted the
\* blocking danger Finding with the button's region
C11_Witness ==
    /\ last_cycle.outcome = "processed"
    /\ in_hideout
    /\ config.map_check.enabled
    /\ occurs(Ctx_Maps, last_cycle.full_text)
    /\ occurs(Mod_Reflect, last_cycle.full_text)
    /\ result_signal # None
    /\ result_signal[1].is_blocking
    /\ result_signal[1].blocker_rect = Some(Button)
    /\ result_signal[1].message = txt_unsafe_map \o upper(Mod_Reflect)

\* only the tiered-reward detector can produce a Finding under config
altars_alone ==
    /\ config.eldritch_altars.enabled
    /\ config.syndicate_goals = <<>>
    /\ ~config.essence.enabled /\ ~config.ritual.enabled
    /\ ~config.expedition.enabled

\* C12: in a cycle outside the hideout, for every tier table, threshold and
\* text: a bad-outcome keyword in the text is surfaced as a danger Finding
\* (no tier is evaluated); otherwise the Finding names a reward of the
\* numerically lowest tier among the tiers at or below the threshold that
\* have a reward in the text; when no tier at or below the threshold has a
\* reward in the text there is no Finding, so a reward of a tier above the
\* threshold is never surfaced.
C12_LowestTierAtOrBelowThreshold ==
    [][(cycle_done /\ last_cycle'.outcome = "processed" /\ ~in_hideout /\ altars_alone) =>
        LET text == last_cycle'.full_text
            cfg == config.eldritch_altars
            bad == {k \in 1..Len(cfg.bad_mods) : occurs(cfg.bad_mods[k], text)}
            eligible == {i \in 1..Len(cfg.tiers) :
                            /\ int(cfg.tiers[i][1]) <= cfg.min_tier_to_highlight
                            /\ \E j \in 1..Len(cfg.tiers[i][2]) :
                                  occurs(cfg.tiers[i][2][j], text)}
            lowest == {i \in eligible :
                          \A k \in eligible : int(cfg.tiers[i][1]) <= int(cfg.tiers[k][1])}
        IN  /\ bad # {} =>
                \E k \in bad :
                    result_signal' =
                        Some(ScanResult(txt_danger \o upper(cfg.bad_mods[k]), "red"))
            /\ (bad = {} /\ eligible # {}) =>
                \E i \in lowest : \E j \in 1..Len(cfg.tiers[i][2]) :
                    /\ occurs(cfg.tiers[i][2][j], text)
                    /\ result_signal' =
                          Some(ScanResult(txt_altar_t \o str(int(cfg.tiers[i][1]))
                                            \o txt_colon \o cfg.tiers[i][2][j], "green"))
            /\ (bad = {} /\ eligible = {}) => result_signal' = None]_vars

-----------------------------------------------------------------------------
(* The multi-strategy recognition pass                                     *)

\* the number of tokens longer than 2 characters a strategy yields; a
\* strategy that raises yields none
long_tokens(outcome) ==
    IF outcome.error THEN 0
    ELSE Cardinality({i \in 1..Len(outcome.text) : Len(strip(outcome.text[i])) > 2})

\* the strategy with the highest count, the first declared among equals
richest(o) ==
    CHOOSE k \in 1..Len(o) :
        /\ \A j \in 1..Len(o) : long_tokens(o[j]) <= long_tokens(o[k])
        /\ \A j \in 1..(k - 1) : long_tokens(o[j]) < long_tokens(o[k])

\* a step that runs a cycle whose first pass finds negotiation keywords, so
\* that the multi-strategy pass runs
multi_strategy_pass ==
    /\ pc = "body"
    /\ last_cycle'.img # None
    /\ is_syndicate_context(join_text(last_cycle'.img[1].first.text))

-----------------------------------------------------------------------------
(* The cadence of the loop                                                 *)

\* the polling interval of a strategy
interval_of(strategy) ==
    IF strategy = "mouse" THEN config.scan_interval_mouse ELSE config.scan_interval_center

\* the gap the cadence prescribes for work of duration d
cadence_gap(interval, d) == IF d < interval THEN interval ELSE d

\* C14: in every executed cycle the sleep is max(0, interval - elapsed) and
\* never negative: the next iteration begins interval after the cycle's
\* start when the work took less than interval and right after the work
\* otherwise; the gap between the starts of consecutive cycles depends
\* only on the earlier cycle's own duration, so a late cycle does not delay
\* the cycles after it.
C14_SteadyCadence ==
    [][cycle_done =>
        LET d == last_cycle'.elapsed
            slept == now' - now - d
        IN  /\ slept >= 0
            /\ slept = Max(0, interval_of(last_cycle'.strategy) - d)
            /\ now' - last_cycle'.time = cadence_gap(interval_of(last_cycle'.strategy), d)
            /\ last_cycle.outcome # "none" =>
                  last_cycle'.time - last_cycle.time =
                      cadence_gap(interval_of(last_cycle.strategy), last_cycle.elapsed)]_vars

\* in center mode a cycle of 0.7 s, longer than the interval of 0.5 s, was
\* followed by a cycle of 0.2 s, after which the loop is 0.5 s past that
\* cycle's start
C14_Witness ==
    /\ last_cycle.strategy = "center"
    /\ last_cycle.time = 7
    /\ last_cycle.elapsed = 2
    /\ now = 12
    /\ pc = "while"

-----------------------------------------------------------------------------
(* The expanded region of the negotiation board                            *)

\* a step that runs one iteration of the loop body, to its end or to an
\* exception
cycle_step == pc = "body" /\ pc' # "body"

\* the first recognition pass of the cycle read a negotiation keyword
context_detected(cycle) ==
    /\ cycle.img # None
    /\ ~cycle.img[1].first.error
    /\ is_syndicate_context(join_text(cycle.img[1].first.text))

\* the region of the active strategy for the cursor and window drawn
strategy_region(strategy) ==
    IF strategy = "mouse"
    THEN hover_region(Cursor_Mid[1][1], Cursor_Mid[1][2], config.scan_region_hover,
                      tooltip_side_mode, screen)
    ELSE center_region(WindowRect, config.scan_region)

\* C15: in_syndicate_board and syndicate_board_last_seen record whether the
\* negotiation context was detected in an earlier cycle and when it was
\* last detected: only a cycle changes them, a detecting cycle sets the time
\* to its own (restarting the window), any other leaves them. A cycle with a
\* window rectangle selects the expanded region if and only if the context
\* was detected earlier and less than 3 s have passed since the last
\* detection; otherwise the region it selects is that of the active
\* strategy.
C15_ExpandedRegionDwell ==
    [][/\ cycle_step =>
            LET dwell == in_syndicate_board /\ now - syndicate_board_last_seen < 30
            IN  /\ last_cycle'.outcome # "no_rect" =>
                      (last_cycle'.region = Some(syndicate_region(WindowRect)) <=> dwell)
                /\ (~dwell /\ last_cycle'.region # None) =>
                      last_cycle'.region = Some(strategy_region(last_cycle'.strategy))
                /\ in_syndicate_board' =
                      (in_syndicate_board \/ context_detected(last_cycle'))
                /\ syndicate_board_last_seen' =
                      IF context_detected(last_cycle') THEN now
                      ELSE syndicate_board_last_seen
       /\ ~cycle_step => UNCHANGED <<in_syndicate_board, syndicate_board_last_seen>>]_vars

\* a cycle without the context on screen, started less than 3 s after the
\* last detection, has selected the expanded region
C15_Witness ==
    /\ in_syndicate_board
    /\ last_cycle.outcome = "processed"
    /\ ~context_detected(last_cycle)
    /\ last_cycle.time - syndicate_board_last_seen \in 1..29
    /\ last_cycle.region = Some(syndicate_region(WindowRect))

-----------------------------------------------------------------------------
(* One Decision per cycle                                                  *)

\* what the negotiation resolver returned in the cycle, from the locals the
\* cycle left and the memory before it
resolver_finding(cycle, memory) ==
    IF cycle.via = "own" THEN cycle.own
    ELSE IF cycle.via = "member_cache" THEN Some(memory[cycle.current_member_name[1]][2])
    ELSE IF cycle.via = "last_good" THEN Some(memory[key_last_good][2])
    ELSE None

\* the Findings of a cycle on the given tokens and text, detector by
\* detector in the fixed order; a detector that does not run in the zone
\* yields none
findings(cycle, memory) ==
    (IF in_hideout THEN <<>>
     ELSE keyword_results(cycle.data_text, active_keywords(config.essence, config.ritual)))
      \o (IF in_hideout THEN None ELSE resolver_finding(cycle, memory))
      \o (IF in_hideout
          THEN check_map_safety(cycle.full_text, config.map_check, config.map_device_button)
          ELSE None)
      \o (IF in_hideout THEN None ELSE check_eldritch(cycle.full_text, config.eldritch_altars))
      \o (IF in_hideout THEN None ELSE check_expedition(cycle.full_text, config.expedition))

\* C16: a cycle emits at most one Decision, the first Finding in the order
\* keyword detector, negotiation resolver, context-gated danger detector,
\* tiered-reward detector, immunity detector; the Findings after it are
\* dropped whatever their severity, and a cycle without Findings emits
\* nothing.
C16_FirstFindingOnly ==
    [][(cycle_done /\ last_cycle'.outcome = "processed") =>
        result_signal' =
            IF findings(last_cycle', syndicate_memory) = <<>> THEN None
            ELSE Some(findings(last_cycle', syndicate_memory)[1])]_vars

\* a cycle with a keyword, a negotiation subject, a reward and an immunity
\* warning on screen has emitted the keyword's info Finding; the resolver's
\* Finding and the immunity danger Finding are dropped
C16_Witness ==
    /\ ~in_hideout
    /\ last_cycle.outcome = "processed"
    /\ result_signal = Some(ScanResult(txt_found \o Kw_Essence, "green"))
    /\ last_cycle.own # None
    /\ check_eldritch(last_cycle.full_text, config.eldritch_altars) # None
    /\ check_expedition(last_cycle.full_text, config.expedition)
          = Some(ScanResult(txt_immune_to \o upper(Dtype_Fire), "red"))

-----------------------------------------------------------------------------
(* The pause and focus gate                                                *)

\* C17: while the worker is paused or the game window is not focused, an
\* iteration of the loop captures and recognizes nothing, runs no detector
\* and emits neither a Decision nor a mode notice; it leaves the memory,
\* the dwell timer and the anchor side as they are, sleeps the fixed
\* backoff of 0.5 s and goes back to the loop test.
C17_GateSkipsTheCycle ==
    [][(pc = "gate" /\ pc' # pc /\ (paused \/ ~focused)) =>
          /\ pc' = "while"
          /\ now' = now + 5
          /\ UNCHANGED <<syndicate_memory, in_syndicate_board,
                         syndicate_board_last_seen, tooltip_side_mode,
                         result_signal, last_strategy, last_cycle>>]_vars

\* after a cycle that emitted a Decision the window lost the focus, and the
\* next iteration has slept the backoff and returned to the loop test
C17_Witness ==
    /\ running
    /\ pc = "while"
    /\ ~focused
    /\ last_cycle.outcome = "processed"
    /\ result_signal # None
    /\ now = last_cycle.time
              + cadence_gap(interval_of(last_cycle.strategy), last_cycle.elapsed) + 5

-----------------------------------------------------------------------------
(* Mode selection                                                          *)

\* the worker reads its mode: at the start of run() and in every cycle
mode_read == (pc = "started" /\ pc' = "while") \/ cycle_step

\* C18: whenever the worker selects its mode, the mode is the override when
\* one is set, whatever the zone is and whichever set_zone calls came after
\* the override; with no override it is the cursor-following mode when the
\* zone name contains "Hideout" and the center mode otherwise, the unknown
\* zone included.
C18_OverrideBeforeZone ==
    [][mode_read =>
          last_strategy' =
              Some(IF manual_override # None THEN manual_override[1]
                   ELSE IF str_in(kw_Hideout, current_zone) THEN "mouse"
                   ELSE "center")]_vars

\* with the center mode forced and the zone a hideout, a cycle has run in
\* the center mode
C18_Witness ==
    /\ manual_override = Some("center")
    /\ current_zone = Zone_Hideout
    /\ last_cycle.outcome = "processed"
    /\ last_cycle.strategy = "center"
    /\ last_strategy = Some("center")
    /\ pc = "while"

-----------------------------------------------------------------------------
(* The memory of the resolver: writes and reads                            *)

\* the cycle returned a Decision of the memory instead of its own result
substituted == last_cycle'.via \in {"member_cache", "last_good"}

\* C19: a cycle that substitutes a cached Decision rewrites no memory entry
\* and no timestamp; the memory changes only in a cycle whose own best
\* result is tier 3. So a Decision recorded at time T and not recorded
\* again is returned by no cycle at or after T + 3 s instead of the cycle's
\* own result, however many cycles substituted it before.
C19_SubstitutionDoesNotRefresh ==
    [][cycle_done =>
        /\ substituted => syndicate_memory' = syndicate_memory
        /\ syndicate_memory' # syndicate_memory => last_cycle'.best_priority = 3
        /\ \A key \in DOMAIN syndicate_memory :
              (/\ substituted
               /\ result_signal' = Some(syndicate_memory[key][2])
               /\ \A other \in DOMAIN syndicate_memory :
                     syndicate_memory[other][2] = syndicate_memory[key][2] =>
                         syndicate_memory[other][1] <= syndicate_memory[key][1]) =>
                  now - syndicate_memory[key][1] < 30]_vars

\* the entry of S, substituted by the cycles in between, still carries the
\* time of its record: the cycle 3.0 s after the record returned its own
\* lower-tier result
C19_Witness ==
    \E S \in subject_keys(syndicate_memory) :
        /\ last_cycle.outcome = "processed"
        /\ last_cycle.current_member_name = Some(S)
        /\ last_cycle.best_priority \in {1, 2}
        /\ last_cycle.time - syndicate_memory[S][1] = 30
        /\ last_cycle.via = "own"
        /\ result_signal = last_cycle.own
        /\ result_signal # Some(syndicate_memory[S][2])

\* the general slot mirrors the subject-keyed entry written last
mirrors_latest(memory) ==
    key_last_good \in DOMAIN memory =>
        LET slot == memory[key_last_good]
        IN  /\ slot[3] \in subject_keys(memory)
            /\ memory[slot[3]] = <<slot[1], slot[2]>>
            /\ \A S \in subject_keys(memory) : memory[S][1] <= slot[1]

\* C20: a cycle that recognizes a subject and whose best result is tier 3
\* writes that Decision with the cycle's time into the entry keyed by the
\* subject and the same Decision and time into the general slot; after
\* every step the general slot, when present, has the timestamp and the
\* Decision of the subject-keyed entry written last.
C20_GeneralSlotMirrorsLatestEntry ==
    [][/\ mirrors_latest(syndicate_memory')
       /\ (cycle_done /\ last_cycle'.current_member_name # None
             /\ last_cycle'.best_priority = 3) =>
            LET S == last_cycle'.current_member_name[1]
            IN  /\ {S, key_last_good} \subseteq DOMAIN syndicate_memory'
                /\ syndicate_memory'[S] = <<now, last_cycle'.own[1]>>
                /\ syndicate_memory'[key_last_good][1] = now
                /\ syndicate_memory'[key_last_good][2] = last_cycle'.own[1]]_vars

\* a second subject was recorded after the first: two subject-keyed
\* entries of different age, the general slot equal to the younger
C20_Witness ==
    \E S \in subject_keys(syndicate_memory) : \E R \in subject_keys(syndicate_memory) :
        /\ key_last_good \in DOMAIN syndicate_memory
        /\ syndicate_memory[R][1] < syndicate_memory[S][1]
        /\ syndicate_memory[key_last_good][1] = syndicate_memory[S][1]
        /\ syndicate_memory[key_last_good][2] = syndicate_memory[S][2]
        /\ last_cycle.best_priority = 3
        /\ last_cycle.time = syndicate_memory[S][1]

-----------------------------------------------------------------------------
(* The resolver's phrasings and tiers (checked under SpecPhrasing)         *)

\* the house the first matching phrasing yields, in the order the claim
\* gives: the current-state phrasings, then the directional one; <<kind,
\* house>> with kind "state" or "move", or None
first_phrasing(text) ==
    IF current_house(text) # None THEN Some(<<"state", current_house(text)[1]>>)
    ELSE IF move_target(text) # None THEN Some(<<"move", move_target(text)[1]>>)
    ELSE None

\* the recommendation for a subject that is based on the phrasing ph
decision_from(member, goal, text, ph) ==
    compose_result(member, goal, lower(text),
                   IF ph # None /\ ph[1][1] = "move" THEN Some(ph[1][2]) ELSE None,
                   IF ph # None /\ ph[1][1] = "state" THEN Some(ph[1][2]) ELSE None,
                   syndicate_actions(text))

\* for the negotiation cards drawn and each configured subject: the
\* recommendation based on the first matching phrasing
first_phrasing_decision ==
    [img \in ImagesOf(PhrasingInputs) |->
        [k \in 1..Len(Goals) |->
            decision_from(Goals[k][1], Goals[k][2],
                          FactsTable[ScannerConfig][img].rec.full_text,
                          first_phrasing(FactsTable[ScannerConfig][img].rec.full_text))]]

\* position of a subject in the configured goals
goal_index(member) == CHOOSE k \in 1..Len(Goals) : Goals[k][1] = member

\* C21: when the text matches more than one phrasing, the recommendation
\* the cycle composes is based on the first that matches in the order
\* current-state phrasings (state before subject, subject before state),
\* then the directional "moves to" phrasing: a "moves to" match decides
\* only when no current-state phrasing matched.
C21_CurrentStateBeforeMovingTo ==
    [][(cycle_done /\ last_cycle'.outcome = "processed"
          /\ last_cycle'.best_member # None) =>
        last_cycle'.own =
            Some(first_phrasing_decision[last_cycle'.img[1]]
                                        [goal_index(last_cycle'.best_member[1])])]_vars

\* the text shows the negotiation card: a button or a context word
negotiation_card(text) == has_buttons(text) \/ has_syndicate_context(text)

\* for the negotiation cards drawn and each configured subject: the tier of
\* the subject's candidate
stated_tier ==
    [img \in ImagesOf(PhrasingInputs) |->
        [k \in 1..Len(Goals) |->
            IF first_phrasing(FactsTable[ScannerConfig][img].rec.full_text) # None THEN 3
            ELSE IF lower(Goals[k][2]) = kw_remove THEN 2
            ELSE 1]]

\* for the negotiation cards drawn: the configured subjects whose names the
\* tokens spell, as positions in the goals, in token order
recognized_subjects ==
    [img \in ImagesOf(PhrasingInputs) |->
        syndicate_hits(FactsTable[ScannerConfig][img].rec.data_text, Goals)]

\* C22: the candidate of a recognized subject is tier 3 exactly when a
\* "moves to" phrase or a current state is resolved, otherwise tier 2
\* exactly when the subject's goal is the always-remove goal, otherwise
\* tier 1; the cycle's own result is the candidate of the highest tier among
\* the subjects recognized in the cycle, the first in token order among
\* those of the highest tier, so no candidate of a lower tier is chosen over
\* one of a higher tier.
C22_HighestTierFirstInTokenOrder ==
    [][(cycle_done /\ last_cycle'.outcome = "processed"
          /\ negotiation_card(last_cycle'.full_text)) =>
        LET tier == stated_tier[last_cycle'.img[1]]
            subjects == recognized_subjects[last_cycle'.img[1]]
        IN  IF subjects = <<>>
            THEN last_cycle'.own = None /\ last_cycle'.best_priority = 0
            ELSE \E n \in 1..Len(subjects) :
                    /\ \A m \in 1..Len(subjects) : tier[subjects[m]] <= tier[subjects[n]]
                    /\ \A m \in 1..(n - 1) : tier[subjects[m]] < tier[subjects[n]]
                    /\ last_cycle'.best_priority = tier[subjects[n]]
                    /\ last_cycle'.best_member = Some(Goals[subjects[n]][1])
                    /\ last_cycle'.own # None
                    /\ concerns(last_cycle'.own[1], Goals[subjects[n]][1])]_vars

\* a cycle recognized Vorici (tier 1) and then Aisling (tier 2, the goal
\* Remove) without a state on the card: its own result is Aisling's
C22_Witness ==
    /\ last_cycle.outcome = "processed"
    /\ last_cycle.data_text = <<Tok_Vorici, Tok_aisling, Tok_Rank>>
    /\ last_cycle.best_priority = 2
    /\ last_cycle.best_member = Some(Name_Aisling)
    /\ last_cycle.own = Some(ScanResult(Name_Aisling \o txt_remove_no_rank, "orange"))

\* C23: a cycle whose best candidate is tier 3 returns the Decision composed
\* in that cycle and not a Decision of the memory, whatever the memory
\* holds: also when the memory has an entry for the subject that is younger
\* than 3 s and holds another Decision.
C23_FreshTier3NotMasked ==
    [][(cycle_done /\ last_cycle'.outcome = "processed"
          /\ last_cycle'.best_priority = 3) =>
        /\ last_cycle'.via = "own"
        /\ last_cycle'.own # None
        /\ result_signal' = last_cycle'.own
        /\ \A key \in DOMAIN syndicate_memory :
              syndicate_memory[key][2] # last_cycle'.own[1] =>
                  result_signal' # Some(syndicate_memory[key][2])]_vars

\* the memory held a Decision for the subject, 1 s old, and the cycle
\* resolved another state at tier 3: the cycle returned the Decision it
\* composed
C23_Witness ==
    /\ last_cycle.outcome = "processed"
    /\ last_cycle.best_priority = 3
    /\ last_cycle.held # None
    /\ last_cycle.time - last_cycle.held[1][1] = 10
    /\ last_cycle.own # None
    /\ last_cycle.held[1][2] # last_cycle.own[1]
    /\ result_signal = last_cycle.own

-----------------------------------------------------------------------------
(* The text and the tokens of a cycle (checked under SpecOcr)              *)

\* the texts of the strategies that did not fail, in declaration order
strategy_texts(o) ==
    LET read == SelectSeq(o, LAMBDA x : ~x.error)
    IN  [k \in 1..Len(read) |-> join_text(read[k].text)]

\* the second pass ran and kept the tokens of one of its strategies
strategy_selected(img) ==
    /\ is_syndicate_context(join_text(img.first.text))
    /\ \E k \in 1..Len(img.strategies) : long_tokens(img.strategies[k]) > 0

\* C24 (as stated): in every cycle, one with the second recognition pass
\* included, the full text handed to the detectors is the space-joined
\* concatenation of the non-empty texts of the token set handed to them.
C24_TextOfTheTokens ==
    [][(cycle_done /\ last_cycle'.outcome = "processed") =>
          last_cycle'.full_text = join_text(last_cycle'.data_text)]_vars

\* C24 (amended): in a cycle without the second pass, and in one whose
\* second pass fell back to the single fallback recognition, the full text
\* is the space-joined concatenation of the non-empty texts of the token set
\* handed to the detectors; in a cycle whose second pass kept a strategy,
\* the tokens are that strategy's and the full text is the space-joined
\* concatenation of the texts of all strategies that did not fail, in
\* declaration order.
C24_TextOfAllStrategies ==
    [][(cycle_done /\ last_cycle'.outcome = "processed") =>
          last_cycle'.full_text =
              IF strategy_selected(last_cycle'.img[1])
              THEN join(<<" ">>, strategy_texts(last_cycle'.img[1].strategies))
              ELSE join_text(last_cycle'.data_text)]_vars

\* the second pass kept the five tokens of the second strategy and handed
\* on a text that also has the words of the first and the fourth strategy
C24_Witness ==
    /\ last_cycle.outcome = "processed"
    /\ last_cycle.img # None
    /\ last_cycle.img[1].strategies =
          <<Reading(1, 2), Reading(2, 5), Reading(3, 0), Reading(4, 5)>>
    /\ last_cycle.data_text = Reading(2, 5).text
    /\ str_in(StrategyWords[1], last_cycle.full_text)
    /\ str_in(StrategyWords[4], last_cycle.full_text)
    /\ last_cycle.full_text # join_text(last_cycle.data_text)

-----------------------------------------------------------------------------
(* Pausing (checked under Spec)                                            *)

\* the worker is inside an iteration that has passed the gate
in_flight == pc = "body"

\* C25: pause() from another thread does not interrupt a cycle in flight:
\* the call changes the pause flag only, and the cycle in flight can still
\* run to its end and emit its Decision; no cycle begins while the flag is
\* set, and a Decision is emitted by a cycle only. So between the return
\* of pause() and the next resume() at most the one cycle in flight runs
\* and at most one Decision is emitted.
C25_PauseIsCooperative ==
    [][/\ (~paused /\ paused') =>
              UNCHANGED <<pc, now, result_signal, last_cycle, syndicate_memory,
                          in_syndicate_board, syndicate_board_last_seen,
                          tooltip_side_mode, running>>
       /\ (paused /\ in_flight /\ now <= MaxTime) =>
              ENABLED (\E inp \in LoopInputs : scan_cycle(inp))
       /\ (paused /\ ~in_flight) => pc' # "body"
       /\ result_signal' # result_signal => (in_flight /\ cycle_step)]_vars

\* with the pause flag set and the window focused, a cycle has emitted its
\* Decision, and the iteration after it has slept the backoff at the gate
\* instead of starting a cycle
C25_Witness ==
    /\ paused
    /\ focused
    /\ running
    /\ pc = "while"
    /\ last_cycle.outcome = "processed"
    /\ result_signal # None
    /\ now = last_cycle.time
              + cadence_gap(interval_of(last_cycle.strategy), last_cycle.elapsed)
              + GateBackoff

-----------------------------------------------------------------------------
(* The expanded region in every zone and mode                              *)

\* the board dwell is open at the start of the step: the context was
\* detected and less than 3 s have passed since
dwell_open == in_syndicate_board /\ now - syndicate_board_last_seen < 30

\* C26: whatever the zone and the override, a cycle that detects the
\* negotiation context records the detection with its own time, and every
\* cycle with a window rectangle that starts less than 3 s after the last
\* detection captures the expanded region of that rectangle, not the
\* region of the active strategy; in a hideout the resolver is not run.
C26_ExpandedRegionInEveryZoneAndMode ==
    [][cycle_step =>
          /\ context_detected(last_cycle') =>
                (in_syndicate_board' /\ syndicate_board_last_seen' = now)
          /\ (dwell_open /\ last_cycle'.rect # None) =>
                /\ last_cycle'.region = Some(syndicate_region(last_cycle'.rect[1]))
                /\ last_cycle'.outcome \notin {"cursor_raised", "no_rect"}
          /\ in_hideout => last_cycle'.via = "none"]_vars

\* in a hideout, under an override to the mouse strategy, a cycle without
\* the context on screen, started less than 3 s after the last detection,
\* has captured the expanded region of a window left of the primary monitor
C26_Witness ==
    /\ current_zone = Zone_Hideout
    /\ manual_override = Some("mouse")
    /\ last_cycle.strategy = "mouse"
    /\ last_cycle.outcome = "processed"
    /\ ~context_detected(last_cycle)
    /\ in_syndicate_board
    /\ last_cycle.time - syndicate_board_last_seen \in 1..29
    /\ last_cycle.rect = Some(Rect_Left)
    /\ last_cycle.region = Some(syndicate_region(Rect_Left))

-----------------------------------------------------------------------------
(* The margins of the expanded region                                      *)

\* the distances between the sides of the window and those of the region
left_margin(region, rect) == region.left - rect.left
right_margin(region, rect) == (rect.left + rect.width) - (region.left + region.width)
top_margin(region, rect) == region.top - rect.top
bottom_margin(region, rect) == (rect.top + rect.height) - (region.top + region.height)

\* the margin is percent % of the dimension, up to the truncation of the
\* region's origin and extent to whole pixels (less than two pixels)
is_percent_of(margin, percent, dimension) ==
    100 * margin - percent * dimension \in -199..199

\* a step in which the expanded region of a window rectangle is selected
expanded_cycle == cycle_step /\ dwell_open /\ last_cycle'.rect # None

\* C27 as stated: the expanded region leaves 5% of the width on the left and
\* on the right and 5% of the height at the top and at the bottom.
C27_FivePercentOnEachSide ==
    [][expanded_cycle =>
          /\ last_cycle'.region # None
          /\ is_percent_of(left_margin(last_cycle'.region[1], last_cycle'.rect[1]), 5,
                           last_cycle'.rect[1].width)
          /\ is_percent_of(right_margin(last_cycle'.region[1], last_cycle'.rect[1]), 5,
                           last_cycle'.rect[1].width)
          /\ is_percent_of(top_margin(last_cycle'.region[1], last_cycle'.rect[1]), 5,
                           last_cycle'.rect[1].height)
          /\ is_percent_of(bottom_margin(last_cycle'.region[1], last_cycle'.rect[1]), 5,
                           last_cycle'.rect[1].height)]_vars

\* C27 amended: the expanded region leaves 5% of the width on the left and
\* on the right, 5% of the height at the top and 10% of the height at the
\* bottom.
C27_TenPercentAtTheBottom ==
    [][expanded_cycle =>
          /\ last_cycle'.region # None
          /\ is_percent_of(left_margin(last_cycle'.region[1], last_cycle'.rect[1]), 5,
                           last_cycle'.rect[1].width)
          /\ is_percent_of(right_margin(last_cycle'.region[1], last_cycle'.rect[1]), 5,
                           last_cycle'.rect[1].width)
          /\ is_percent_of(top_margin(last_cycle'.region[1], last_cycle'.rect[1]), 5,
                           last_cycle'.rect[1].height)
          /\ is_percent_of(bottom_margin(last_cycle'.region[1], last_cycle'.rect[1]), 10,
                           last_cycle'.rect[1].height)]_vars

\* the expanded region of the full-screen window was captured: 96 pixels
\* are left on either side, 54 above and 108 below
C27_Witness ==
    /\ last_cycle.rect = Some(WindowRect)
    /\ last_cycle.outcome = "processed"
    /\ last_cycle.time - syndicate_board_last_seen \in 1..29
    /\ last_cycle.region # None
    /\ left_margin(last_cycle.region[1], WindowRect) = 96
    /\ right_margin(last_cycle.region[1], WindowRect) = 96
    /\ top_margin(last_cycle.region[1], WindowRect) = 54
    /\ bottom_margin(last_cycle.region[1], WindowRect) = 108

-----------------------------------------------------------------------------
(* The anchor side of the cursor-anchored region                           *)

\* the horizontal offset of the anchor side: 0 is the left anchor, 1 the
\* right one
anchor_offset(side) ==
    IF side = 0 THEN config.scan_region_hover.x_offset
    ELSE config.scan_region_hover.x_offset_right

\* the cycle ran process_image on a captured image and it returned
searched(cycle) == cycle.img # None /\ cycle.outcome # "raised"

-----------------------------------------------------------------------------
(* Detectors enabled without a vocabulary                                  *)

\* C29: with one detector enabled while a vocabulary of its own is missing
\* (map check without context list or without bad-mod list, altars without
\* tier table, expedition without its lists, keywords enabled without
\* keywords, no syndicate goals) no cycle surfaces a Finding and none ends
\* with an exception, whatever the text on the screen.
C29_GapYieldsNothing ==
    [][cycle_step => (result_signal' = None /\ pc' # "crashed")]_vars

-----------------------------------------------------------------------------
(* The keyword detectors                                                   *)

\* the keywords of the keyword detectors that are enabled, essence first
configured_keywords ==
    (IF config.essence.enabled THEN config.essence.keywords ELSE <<>>)
      \o (IF config.ritual.enabled THEN config.ritual.keywords ELSE <<>>)

\* the keyword occurs, whatever the case, inside the token, and the token
\* has at least 3 characters once trimmed
inside_token(keyword, token) ==
    Len(strip(token)) >= 3 /\ occurs(keyword, strip(token))

\* the tokens with a keyword inside, and the keywords inside a token
matching_tokens(tokens) ==
    {i \in 1..Len(tokens) :
        \E k \in 1..Len(configured_keywords) : inside_token(configured_keywords[k], tokens[i])}
keywords_inside(token) ==
    {k \in 1..Len(configured_keywords) : inside_token(configured_keywords[k], token)}

least(S) == CHOOSE n \in S : \A m \in S : n <= m

keyword_finding(keyword) == Some(ScanResult(txt_found \o keyword, "green"))

\* C30: with the keyword detectors alone, a cycle surfaces a Finding only
\* outside a hideout and only for a configured keyword that occurs, whatever
\* the case, inside one token of at least 3 characters; a keyword that
\* occurs only across tokens of the joined text or only in shorter tokens
\* yields none; of several matches the one surfaced is that of the first
\* matching token in token order (of that token's keywords, the first
\* configured).
C30_KeywordInsideOneToken ==
    [][cycle_step =>
          IF in_hideout \/ matching_tokens(last_cycle'.data_text) = {}
          THEN result_signal' = None
          ELSE result_signal' =
                  keyword_finding(configured_keywords[
                      least(keywords_inside(last_cycle'.data_text[
                          least(matching_tokens(last_cycle'.data_text))]))])]_vars

\* the words "of" and "woe" were read outside a hideout: the keyword "of Woe"
\* occurs in the joined text and the keyword "of" in a token of 2
\* characters, and no Finding was surfaced
C30_WitnessAcrossTokens ==
    /\ ~in_hideout
    /\ last_cycle.data_text = <<Tok_of, Tok_woe>>
    /\ occurs(Kw_of_Woe, last_cycle.full_text)
    /\ Kw_of_Woe \in {configured_keywords[k] : k \in 1..Len(configured_keywords)}
    /\ Kw_of \in {configured_keywords[k] : k \in 1..Len(configured_keywords)}
    /\ result_signal = None

====
